---- MODULE Spec2Model ----
(***************************************************************************)
(* OnStepX motion-control core: the per-axis step generator (Axis::move,   *)
(* run from a timer interrupt) and the coordinate/target API of Axis that  *)
(* the command context calls (src/src/lib/Axis.cpp).                       *)
(*                                                                         *)
(* A physical value (double, in measures) is written n/ValueDenominator    *)
(* with n an integer; value*spm is then the exact rational                 *)
(* n*StepsPerMeasure/ValueDenominator, and the conversions to long (lround *)
(* or truncation) are computed on that rational.                           *)
(***************************************************************************)
EXTENDS Integers, FiniteSets

\* ---------------------------------------------------------------- bounds
MaxValue == 2              \* coordinate arguments are n/ValueDenominator, |n| <= MaxValue
ValueDenominator == 2      \* resolution of the physical values fed to the API
MaxBacklashValue == 2      \* setBacklash arguments are n/ValueDenominator, 0 <= n <= MaxBacklashValue
MaxSteps == 3              \* cap on |motorSteps|, |targetSteps|, |indexSteps| (guards)

\* ------------------------------------------------------ program constants
StepsPerMeasure == 3       \* spm, axisSettings.stepsPerMeasure
Step == 1                  \* Axis::step
TrackingStep == 1          \* Axis::trackingStep
InvertStep == FALSE        \* AxisPins field 4
InvertDir == FALSE         \* AxisPins field 5

Values == (-MaxValue)..MaxValue
BacklashValues == 0..MaxBacklashValue
StepRange == (-MaxSteps)..MaxSteps
TargetRange == (-(MaxSteps * ValueDenominator))..(MaxSteps * ValueDenominator)

VARIABLES
  motorSteps,          \* volatile long motorSteps
  targetSteps,         \* volatile long targetSteps
  indexSteps,          \* volatile long indexSteps
  backlashSteps,       \* volatile long backlashSteps
  backlashAmountSteps, \* volatile long backlashAmountSteps
  target,              \* double target, in 1/ValueDenominator steps
  takeStep,            \* generator phase flag
  dirFwd,              \* direction latch of the generator
  tracking,            \* auto-advance flag
  stepPin,             \* level of the step pin
  dirPin,              \* level of the direction pin
  intsEnabled,         \* FALSE between noInterrupts() and interrupts()
  pc,                  \* position of the command context
  arg,                 \* argument of the call in progress
  steps,               \* the local `long steps` of the call in progress
  unread,              \* nearTarget: the fields its expression has not loaded yet
  nearSeen,            \* history: values of the nearTarget predicate in the states passed during the call
  relabel,             \* history: {v} after setInstrumentCoordinate(v) until the next tick or reset
  lastSign,            \* history: sign of target - position at the last tick where it was not 0
  lastDirSign,         \* history: the same, over the Phase B ticks only
  targetSet,           \* history: {v} after setTargetCoordinate(v) until the target or the index moves again
  maxFreq,             \* double maxFreq, steps per second, <<numerator, denominator>>
  minPeriodMicros,     \* double minPeriodMicros, microseconds, <<numerator, denominator>>
  lastPeriod,          \* unsigned long lastPeriod, sub-microsecond ticks
  taskPeriod,          \* the period programmed into the axis's periodic task, sub-microsecond ticks
  clockPeriod,         \* clock.getPeriodSubMicros(), in SIDEREAL_PERIOD/ClockDenominator
  freqCall             \* history: {f} after setFrequency(f) until the ceiling or the clock changes

\* the mount
VARIABLES
  mountType,           \* int8_t mountType
  trackingState,       \* TS_NONE or TS_SIDEREAL
  rateCompensation,    \* RC_NONE .. RC_FULL_BOTH
  trackingRate,        \* double trackingRate
  trackingRateAxis1,   \* double trackingRateAxis1
  trackingRateAxis2,   \* double trackingRateAxis2
  guideRateAxis1,      \* externally supplied rate corrections
  guideRateAxis2,
  deltaRateAxis1,
  deltaRateAxis2,
  axis1Frequency,      \* the frequency last passed to axis1.setFrequency
  axis2Frequency,      \* the frequency last passed to axis2.setFrequency
  axis1Enabled,        \* axis1.isEnabled()
  axis2Enabled,        \* axis2.isEnabled()
  parkState,           \* PS_PARKED or PS_UNPARKED
  gotoState,           \* GS_NONE or GS_GOTO
  guideState,          \* GU_NONE or GU_GUIDE
  generalErrors,       \* the general error flags that are set
  gotoTarget,          \* gotoTarget.a, .d, .r, .z
  minAltitude,         \* limits.minAltitude
  maxAltitude,         \* limits.maxAltitude
  commandError,        \* *commandError when the last command returned
  command,             \* history: the last command, <<letters, parameter>>
  commandFlip,         \* history: changes at every command
  ratesUpdated,        \* history: the last command ended in updateTrackingRates()
  axis2BacklashAmountSteps, \* axis2.backlashAmountSteps
  axis2BacklashSteps,  \* axis2.backlashSteps
  reply,               \* the number the last :%B command wrote into reply
  axis1EnablePin,      \* Pins.enable of axis 1: "OFF" or "PIN"
  axis2EnablePin,      \* Pins.enable of axis 2
  axis2IndexSteps,     \* axis2.indexSteps
  siderealScale,       \* siderealToRad(1.0) is siderealScale/FrequencyDenominator measures per second
  mountReady,          \* Mount::init has run
  minSteps,            \* axis 1: lower soft travel limit, in steps
  maxSteps             \* axis 1: upper soft travel limit, in steps

rateVars == <<trackingRateAxis1, trackingRateAxis2, axis1Frequency, axis2Frequency>>
correctionVars == <<guideRateAxis1, guideRateAxis2, deltaRateAxis1, deltaRateAxis2>>
externalVars == <<mountType, parkState, gotoState, guideState>>
trackingVars == <<trackingState, rateCompensation, trackingRate, axis1Enabled, axis2Enabled,
                  generalErrors>>
limitVars == <<minAltitude, maxAltitude>>
commandVars == <<commandError, command, commandFlip, ratesUpdated>>
axis2Vars == <<axis2BacklashAmountSteps, axis2BacklashSteps, reply>>
configVars == <<axis1EnablePin, axis2EnablePin, axis2IndexSteps, siderealScale, mountReady,
                minSteps, maxSteps>>

mountVars == <<externalVars, trackingVars, rateVars, correctionVars, gotoTarget, limitVars,
               commandVars, axis2Vars, configVars>>

vars == <<motorSteps, targetSteps, indexSteps, backlashSteps, backlashAmountSteps,
          target, takeStep, dirFwd, tracking, stepPin, dirPin, intsEnabled,
          pc, arg, steps, unread, nearSeen, relabel, lastSign, lastDirSign, targetSet,
          maxFreq, minPeriodMicros, lastPeriod, taskPeriod, clockPeriod, freqCall,
          mountVars>>

\* the step generator and the coordinate API
stepVars == <<motorSteps, targetSteps, indexSteps, backlashSteps, backlashAmountSteps,
              target, takeStep, dirFwd, tracking, stepPin, dirPin, intsEnabled,
              pc, arg, steps, unread, nearSeen, relabel, lastSign, lastDirSign, targetSet>>

\* the frequency-to-period conversion
freqVars == <<maxFreq, minPeriodMicros, lastPeriod, taskPeriod, clockPeriod, freqCall>>

\* everything the step generator and the coordinate API leave alone
nonStepVars == <<freqVars, mountVars>>

axisVars == <<motorSteps, targetSteps, backlashSteps, backlashAmountSteps,
              target, takeStep, dirFwd, tracking, stepPin, dirPin>>

\* ---------------------------------------------------------- conversions
Abs(x) == IF x < 0 THEN -x ELSE x

\* lround(num/den): nearest integer, halves away from zero
Lround(num, den) ==
  IF num >= 0 THEN (2 * num + den) \div (2 * den)
              ELSE -((2 * (-num) + den) \div (2 * den))

\* (long)(num/den): truncation toward zero
Trunc(num, den) ==
  IF num >= 0 THEN num \div den ELSE -((-num) \div den)

\* value*spm for value = n/ValueDenominator, in 1/ValueDenominator steps
TimesSpm(n) == n * StepsPerMeasure

\* steps/spm, in 1/(StepsPerMeasure*ValueDenominator) measures
OverSpm(s) == s * ValueDenominator

\* a value n/ValueDenominator in 1/(StepsPerMeasure*ValueDenominator) measures
Measure(n) == n * StepsPerMeasure

\* one step, in 1/(StepsPerMeasure*ValueDenominator) measures
OneStep == ValueDenominator

\* ------------------------------------------------------------------ pins
StepActive == IF InvertStep THEN "LOW" ELSE "HIGH"
StepIdle == IF InvertStep THEN "HIGH" ELSE "LOW"
DirReverse == IF InvertDir THEN "LOW" ELSE "HIGH"
DirForward == IF InvertDir THEN "HIGH" ELSE "LOW"

\* ------------------------------------------------------------ Axis::move
Position == motorSteps + backlashSteps

\* mutant: the target advances whether tracking is on or not
AdvancedTarget_Always(tgt, trk) == tgt + TrackingStep

\* targetSteps after `if (tracking) targetSteps += trackingStep`
AdvancedTarget(tgt, trk) == IF trk THEN tgt + TrackingStep ELSE tgt

\* mutant: the advance branch tests <= and so banks one step too many
BacklashAfterStep_NoClamp(m, b, amount, tgt) ==
  IF m + b > tgt THEN (IF b > 0 THEN b - Step ELSE b)
  ELSE IF m + b < tgt THEN (IF b <= amount THEN b + Step ELSE b)
  ELSE b

\* mutant: the advance branch stops banking slack one step early
BacklashAfterStep_Short(m, b, amount, tgt) ==
  IF m + b > tgt THEN (IF b > 0 THEN b - Step ELSE b)
  ELSE IF m + b < tgt THEN (IF b + Step < amount THEN b + Step ELSE b)
  ELSE b

\* backlashSteps after the Phase A comparison
BacklashAfterStep(m, b, amount, tgt) ==
  IF m + b > tgt THEN (IF b > 0 THEN b - Step ELSE b)
  ELSE IF m + b < tgt THEN (IF b < amount THEN b + Step ELSE b)
  ELSE b

\* mutant: both branches move the motor two steps at a time
MotorAfterStep_Overshoot(m, b, amount, tgt) ==
  IF m + b > tgt THEN (IF b > 0 THEN m ELSE m - 2 * Step)
  ELSE IF m + b < tgt THEN (IF b < amount THEN m ELSE m + 2 * Step)
  ELSE m

\* motorSteps after the Phase A comparison
MotorAfterStep(m, b, amount, tgt) ==
  IF m + b > tgt THEN (IF b > 0 THEN m ELSE m - Step)
  ELSE IF m + b < tgt THEN (IF b < amount THEN m ELSE m + Step)
  ELSE m

\* mutant: the step pin is written active in every Phase A
StepPinAfterStep_Always(m, b, tgt, pin) == StepActive

\* step pin after Phase A: written active in both stepping branches
StepPinAfterStep(m, b, tgt, pin) ==
  IF m + b > tgt \/ m + b < tgt THEN StepActive ELSE pin

\* dirFwd after the Phase B comparison
DirFwdAfterPhaseB(m, b, tgt, fwd) ==
  IF m + b > tgt THEN (IF ~fwd THEN ~fwd ELSE fwd)
  ELSE IF m + b < tgt THEN (IF fwd THEN ~fwd ELSE fwd)
  ELSE fwd

\* mutant: the direction pin is written from the comparison, without the latch
DirPinAfterPhaseB_NoLatch(m, b, tgt, fwd, pin) ==
  IF m + b > tgt THEN DirReverse ELSE DirForward

\* direction pin after the Phase B comparison
DirPinAfterPhaseB(m, b, tgt, fwd, pin) ==
  IF m + b > tgt THEN (IF ~fwd THEN DirReverse ELSE pin)
  ELSE IF m + b < tgt THEN (IF fwd THEN DirForward ELSE pin)
  ELSE pin

\* the predicate nearTarget computes, on given field values
NearValue(m, b, tgt) == Abs((m + b) - tgt) <= Step * 2

InNearTarget == pc \in {"nt_read", "nt_ret"}

PhaseA ==
  /\ takeStep
  /\ AdvancedTarget(targetSteps, tracking) \in StepRange
  /\ targetSteps' = AdvancedTarget(targetSteps, tracking)
  /\ backlashSteps' = BacklashAfterStep(motorSteps, backlashSteps, backlashAmountSteps, targetSteps')
  /\ motorSteps' = MotorAfterStep(motorSteps, backlashSteps, backlashAmountSteps, targetSteps')
  /\ stepPin' = StepPinAfterStep(motorSteps, backlashSteps, targetSteps', stepPin)
  /\ UNCHANGED <<dirFwd, dirPin>>

PhaseB ==
  /\ ~takeStep
  /\ dirFwd' = DirFwdAfterPhaseB(motorSteps, backlashSteps, targetSteps, dirFwd)
  /\ dirPin' = DirPinAfterPhaseB(motorSteps, backlashSteps, targetSteps, dirFwd, dirPin)
  /\ stepPin' = StepIdle
  /\ UNCHANGED <<motorSteps, backlashSteps, targetSteps>>

\* one invocation of the generator; the timer interrupt is held off while
\* the command context has interrupts disabled
SignOf(x) == IF x > 0 THEN 1 ELSE IF x < 0 THEN -1 ELSE 0

\* sign of target - position as the invocation in progress compares them
TickSign == SignOf(targetSteps' - (motorSteps + backlashSteps))

\* bookkeeping of the history variables at a tick
Observe ==
  /\ nearSeen' = IF InNearTarget
                 THEN nearSeen \cup {NearValue(motorSteps', backlashSteps', targetSteps')}
                 ELSE nearSeen
  /\ relabel' = {}
  /\ lastSign' = IF TickSign # 0 THEN TickSign ELSE lastSign
  /\ lastDirSign' = IF ~takeStep /\ TickSign # 0 THEN TickSign ELSE lastDirSign
  /\ targetSet' = IF targetSteps' # targetSteps THEN {} ELSE targetSet

Move ==
  /\ intsEnabled
  /\ (PhaseA \/ PhaseB)
  /\ takeStep' = ~takeStep
  /\ Observe
  /\ UNCHANGED <<indexSteps, backlashAmountSteps, target, tracking,
                 intsEnabled, pc, arg, steps, unread>>
  /\ UNCHANGED nonStepVars

\* ---------------------------------------- Axis::setFrequency(Max)
\* A double is the exact rational <<numerator, denominator>>, denominator > 0,
\* in lowest terms; <<1, 0>> is +infinity.  All the arithmetic below keeps its
\* intermediate integers under 2^31.
MaxFrequency == 6            \* requested frequencies are n/FrequencyDenominator or n*FastFrequency, |n| <= MaxFrequency
FrequencyDenominator == 1000 \* resolution of the slow frequencies, measures per second
FastFrequency == 1000000     \* unit of the fast frequencies, measures per second
ClockDenominator == 8        \* the clock period is counted in SIDEREAL_PERIOD/ClockDenominator
MaxTrim == 1                 \* the clock period is within MaxTrim units of SIDEREAL_PERIOD

MicrosPerSecond == 1000000   \* 1000000.0
PeriodCeiling == 134000000   \* 134000000
SubMicros == 16              \* 16.0

RECURSIVE Gcd(_, _)
Gcd(a, b) == IF b = 0 THEN a ELSE Gcd(b, a % b)

Ratio(n, d) == LET g == Gcd(Abs(n), d) IN <<n \div g, d \div g>>

Infinity == <<1, 0>>
Zero == <<0, 1>>
Finite(x) == x[2] # 0

\* a/b < c/d for non-negative rationals, by their continued fractions
RECURSIVE LessPos(_, _, _, _)
LessPos(an, ad, bn, bd) ==
  LET qa == an \div ad
      qb == bn \div bd
      ra == an % ad
      rb == bn % bd
  IN IF qa # qb THEN qa < qb
     ELSE IF rb = 0 THEN FALSE
     ELSE IF ra = 0 THEN TRUE
     ELSE LessPos(bd, rb, ad, ra)

\* x < y
Less(x, y) ==
  IF ~Finite(x) THEN FALSE
  ELSE IF ~Finite(y) THEN TRUE
  ELSE IF x[1] < 0 THEN (y[1] >= 0 \/ LessPos(-y[1], y[2], -x[1], x[2]))
  ELSE y[1] > 0 /\ LessPos(x[1], x[2], y[1], y[2])

\* frequency*spm
StepsPerSecond(f) == Ratio(f[1] * StepsPerMeasure, f[2])

\* 1000000.0/x
MicrosPer(x) ==
  IF x[1] = 0 THEN Infinity
  ELSE IF x[1] > 0 THEN Ratio(MicrosPerSecond * x[2], x[1])
  ELSE Ratio(-(MicrosPerSecond * x[2]), -x[1])

\* mutant: the floor is not applied
ClampedPeriod_NoFloor(d, floor) == d

\* d after `if (d < minPeriodMicros) d = minPeriodMicros`
ClampedPeriod(d, floor) == IF Less(d, floor) THEN floor ELSE d

\* d /= 2.0
Half(x) == IF Finite(x) THEN Ratio(x[1], 2 * x[2]) ELSE x

\* !isnan(d) && fabs(d) <= 134000000
PeriodAccepted(d) ==
  /\ Finite(d)
  /\ \/ Abs(d[1]) \div d[2] < PeriodCeiling
     \/ (Abs(d[1]) \div d[2] = PeriodCeiling /\ Abs(d[1]) % d[2] = 0)

\* (unsigned long)lround(x*a/b) for x >= 0 and integers a, b > 0
LroundTimes(x, a, b) ==
  LET den == x[2] * b
      q == x[1] \div den
      r == x[1] % den
  IN q * a + Lround(r * a, den)

\* lastPeriod after setFrequency: the half-period in sub-microsecond ticks
LastPeriodFor(d) ==
  IF PeriodAccepted(d) THEN LroundTimes(d, SubMicros, 1) ELSE 0

\* mutant: the period is programmed without the clock adjustment
TaskPeriodFor_Unadjusted(d, clk) ==
  IF PeriodAccepted(d) THEN LroundTimes(d, SubMicros, 1) ELSE 0

\* the period handed to tasks.setPeriodSubMicros: the same, adjusted by
\* SIDEREAL_PERIOD/clock.getPeriodSubMicros()
TaskPeriodFor(d, clk) ==
  IF PeriodAccepted(d) THEN LroundTimes(d, SubMicros * ClockDenominator, clk) ELSE 0

SlowFrequencies == {<<n, FrequencyDenominator>> : n \in (-MaxFrequency)..MaxFrequency}
FastFrequencies == {<<n * FastFrequency, 1>> : n \in 1..MaxFrequency}
Frequencies == SlowFrequencies \cup FastFrequencies
CeilingFrequencies == {Ratio(f[1], f[2]) : f \in {g \in Frequencies : g[1] >= 0}}
ClockPeriods == (ClockDenominator - MaxTrim)..(ClockDenominator + MaxTrim)

InitFrequency ==
  /\ maxFreq = Zero
  /\ minPeriodMicros = Zero
  /\ lastPeriod = 0
  /\ taskPeriod = 0
  /\ clockPeriod = ClockDenominator
  /\ freqCall = {}

\* maxFreq = frequency*spm; minPeriodMicros = 1000000.0/maxFreq, or 0.0
SetFrequencyMax(f) ==
  /\ maxFreq' = StepsPerSecond(f)
  /\ minPeriodMicros' = IF f[1] # 0 THEN MicrosPer(maxFreq') ELSE Zero
  /\ freqCall' = {}
  /\ UNCHANGED <<lastPeriod, taskPeriod, clockPeriod>>

\* the half-period of the square wave, in microseconds, before the test
HalfPeriod(f, floor) == Half(ClampedPeriod(MicrosPer(StepsPerSecond(f)), floor))

SetFrequency(f) ==
  /\ lastPeriod' = LastPeriodFor(HalfPeriod(f, minPeriodMicros))
  /\ taskPeriod' = TaskPeriodFor(HalfPeriod(f, minPeriodMicros), clockPeriod)
  /\ freqCall' = {f}
  /\ UNCHANGED <<maxFreq, minPeriodMicros, clockPeriod>>

\* what getFrequencySteps returns: 16000000.0/(lastPeriod * 2UL), or 0;
\* lastPeriod <= 16 * 134000000 < 2^31, so the product does not wrap
GetFrequencySteps ==
  IF lastPeriod = 0 THEN Zero ELSE Ratio(MicrosPerSecond * (SubMicros \div 2), lastPeriod)

\* clock.setPeriodSubMicros(p)
ClockSetPeriodSubMicros(p) ==
  /\ clockPeriod' = p
  /\ freqCall' = {}
  /\ UNCHANGED <<maxFreq, minPeriodMicros, lastPeriod, taskPeriod>>

\* ------------------------------------------------------------ Mount
\* Angles and rates that went through a unit conversion (degToRad, hrsToRad,
\* siderealToRad) are <<n, k>>: the number n multiplied k times by the
\* conversion factor, which is irrational; zero is <<0, 1>>.
MaxDegree == 32            \* degree parameters of :Sh are integers, |deg| <= MaxDegree
MaxCoordinate == 1         \* parsed parameters of :Sa :Sd :Sr :Sz are integers, 0 <= v <= MaxCoordinate
MaxConversions == 2        \* cap on the conversions one gotoTarget field goes through (guards)
MaxCorrection == 1         \* guide and delta rate corrections, in 1/1000 Hz of sidereal, |r| <= MaxCorrection
MaxMargin == 1             \* degree parameters of :So are integers from MinOverhead - MaxMargin to MaxOverhead + MaxMargin
MaxRaised == 2             \* cap on the general error flags raised at one time

MinHorizon == -30          \* deg >= -30
MaxHorizon == 30           \* deg <= 30
MinOverhead == 60          \* deg >= 60
MaxOverhead == 90          \* deg <= 90
AltAzmOverhead == 87       \* limits.maxAltitude > 87
SiderealRate == 60164      \* SIDEREAL_RATE_HZ, in 1/1000 Hz
SolarRate == 60000         \* hzToSidereal(60)
KingRate == 60136          \* hzToSidereal(60.136)
LunarRate == 57900         \* hzToSidereal(57.9)
MinRate == 30000           \* f >= 30.0
MaxRate == 90000           \* f < 90.0
StopRate == 100            \* fabs(f) < 0.1

MountTypes == {"GEM", "FORK", "ALTAZM"}
TrackingStates == {"TS_NONE", "TS_SIDEREAL"}
RateCompensations == {"RC_NONE", "RC_REFR_RA", "RC_REFR_BOTH", "RC_FULL_RA", "RC_FULL_BOTH"}
GeneralErrorFlags == {"altitudeMin", "limitSense", "decMinMax", "azmMinMax", "raMinMax",
                      "raMeridian", "sync", "altitudeMax", "park"}

Scaled(x) == IF x[1] = 0 THEN <<0, 1>> ELSE <<x[1], x[2] + 1>>
DegToRad(x) == Scaled(x)
HrsToRad(x) == Scaled(x)
SiderealToRad(n) == Scaled(<<n, 0>>)

\* hzToSidereal(f) for f in 1/1000 Hz, in 1/1000 Hz of sidereal
HzToSidereal(f) == f

\* a command's parameter text as the parser sees it: nothing, text that is
\* not a number, or the number v
Empty == [kind |-> "empty", v |-> 0]
Bad == [kind |-> "bad", v |-> 0]
Num(n) == [kind |-> "num", v |-> n]
Parsed(par) == par.kind = "num"

\* axis 2 as constructed, and no reply written yet
InitAxis2 ==
  /\ axis2BacklashAmountSteps = 0
  /\ axis2BacklashSteps = 0
  /\ reply = 0

\* axis1Settings.min and .max, in 1/ValueDenominator measures
AxisMin == -1
AxisMax == 1

\* minSteps = axisSettings.min*spm; maxSteps = axisSettings.max*spm;
LimitSteps(n) == Trunc(TimesSpm(n), ValueDenominator)

\* both enable pins assigned, Mount::init done
InitConfig ==
  /\ axis1EnablePin = "PIN"
  /\ axis2EnablePin = "PIN"
  /\ axis2IndexSteps = 0
  /\ siderealScale = 1
  /\ mountReady = TRUE
  /\ minSteps = LimitSteps(AxisMin)
  /\ maxSteps = LimitSteps(AxisMax)

\* mutant: the enable state is never written
EnabledAfter_NoWrite(pin, value, old) == old

\* Axis::isEnabled() after Axis::enable(value): `enabled` is written only
\* when the axis has an enable pin
EnabledAfter(pin, value, old) == IF pin # "OFF" THEN value ELSE old

\* Mount after Mount::init, of one of the given types and in one of the
\* given compensation modes
InitMountIn(types, comps) ==
  /\ mountType \in types
  /\ trackingState = "TS_SIDEREAL"
  /\ rateCompensation \in comps
  /\ trackingRate = HzToSidereal(SiderealRate)
  /\ trackingRateAxis1 = IF mountType # "ALTAZM" THEN trackingRate ELSE 0
  /\ trackingRateAxis2 = 0
  /\ guideRateAxis1 = 0
  /\ guideRateAxis2 = 0
  /\ deltaRateAxis1 = 0
  /\ deltaRateAxis2 = 0
  /\ axis1Frequency = SiderealToRad(trackingRateAxis1)
  /\ axis2Frequency = SiderealToRad(trackingRateAxis2)
  /\ axis1Enabled = TRUE
  /\ axis2Enabled = TRUE
  /\ parkState = "PS_UNPARKED"
  /\ gotoState = "GS_NONE"
  /\ guideState = "GU_NONE"
  /\ generalErrors = {}
  /\ gotoTarget = [a |-> <<0, 1>>, d |-> <<0, 1>>, r |-> <<0, 1>>, z |-> <<0, 1>>]
  /\ minAltitude = DegToRad(<<-10, 0>>)
  /\ maxAltitude = DegToRad(<<85, 0>>)
  /\ commandError = "CE_NONE"
  /\ command = <<<<"", "">>, Empty>>
  /\ commandFlip = FALSE
  /\ ratesUpdated = TRUE
  /\ InitAxis2
  /\ InitConfig

\* Mount after Mount::init, of the given type
InitMount(types) == InitMountIn(types, {"RC_NONE"})

\* ------------------------------------- Mount::updateTrackingRates
IsDual(comp) == comp \in {"RC_REFR_BOTH", "RC_FULL_BOTH"}

\* mutant: the primary rate is not forced to zero when tracking is off
RateAxis1_NotStopped(type, state, rate, old) ==
  IF type # "ALTAZM" THEN rate ELSE old

\* trackingRateAxis1 after updateTrackingRates
RateAxis1(type, state, rate, old) ==
  IF state = "TS_NONE" THEN 0
  ELSE IF type # "ALTAZM" THEN rate ELSE old

\* mutant: the secondary rate is kept in the single-axis modes too
RateAxis2_Kept(type, state, comp, old) ==
  IF state = "TS_NONE" THEN 0 ELSE old

\* trackingRateAxis2 after updateTrackingRates
RateAxis2(type, state, comp, old) ==
  IF state = "TS_NONE" THEN 0
  ELSE IF type # "ALTAZM" /\ ~IsDual(comp) THEN 0 ELSE old

\* updateTrackingRates() run as the last thing of a command
UpdateTrackingRates ==
  /\ trackingRateAxis1' = RateAxis1(mountType, trackingState', trackingRate', trackingRateAxis1)
  /\ trackingRateAxis2' = RateAxis2(mountType, trackingState', rateCompensation', trackingRateAxis2)
  /\ axis1Frequency' = SiderealToRad(trackingRateAxis1' + guideRateAxis1 + deltaRateAxis1)
  /\ axis2Frequency' = SiderealToRad(trackingRateAxis2' + guideRateAxis2 + deltaRateAxis2)
  /\ ratesUpdated' = TRUE

\* the command returns without calling updateTrackingRates()
RatesLeftAlone ==
  /\ UNCHANGED rateVars
  /\ ratesUpdated' = FALSE

\* ---------------------------------------------------- Mount::command
\* A command is its two letters <<command[0], command[1]>> and its parameter,
\* the parameter being what the parser in use makes of it: [kind |-> "empty"],
\* [kind |-> "bad"] (text that does not parse) or [kind |-> "num", v |-> n].
TrimStep == 1              \* hzToSubMicros(0.02), in SIDEREAL_PERIOD/ClockDenominator


\* the handler the if-else chain of Mount::command selects for an S or T
\* command (the handlers before :Sa take neither)
Handler(c, par) ==
  IF c = <<"S", "a">> THEN "Sa"
  ELSE IF c = <<"S", "d">> THEN "Sd"
  ELSE IF c = <<"S", "h">> THEN "Sh"
  ELSE IF c[2] = "o" THEN "So"
  ELSE IF c = <<"S", "r">> THEN "Sr"
  ELSE IF c = <<"S", "T">> THEN "ST"
  ELSE IF c = <<"S", "z">> THEN "Sz"
  ELSE IF c[1] = "T" /\ par.kind = "empty" THEN "T"
  ELSE IF c = <<"$", "B">> THEN "$B"
  ELSE IF c = <<"%", "B">> THEN "%B"
  ELSE "none"

\* what every handler does to the bookkeeping of the command
Received(c, par) ==
  /\ command' = <<c, par>>
  /\ commandFlip' = ~commandFlip
  /\ UNCHANGED <<stepVars, externalVars, correctionVars, axis2Vars, configVars>>

\* a gotoTarget field after `if (!convert.xToDouble(&field, parameter)) ...;
\* field = toRad(field)`: the conversion is applied whether the parse
\* succeeded or not
TargetFieldAfter(old, par) == Scaled(IF Parsed(par) THEN <<par.v, 0>> ELSE old)

SetTargetField(c, par, f) ==
  /\ Parsed(par) \/ gotoTarget[f][2] < MaxConversions
  /\ gotoTarget' = [gotoTarget EXCEPT ![f] = TargetFieldAfter(gotoTarget[f], par)]
  /\ commandError' = IF Parsed(par) THEN "CE_NONE" ELSE "CE_PARAM_RANGE"
  /\ RatesLeftAlone
  /\ Received(c, par)
  /\ UNCHANGED <<freqVars, trackingVars, limitVars>>

CommandSa(c, par) == Handler(c, par) = "Sa" /\ SetTargetField(c, par, "a")
CommandSd(c, par) == Handler(c, par) = "Sd" /\ SetTargetField(c, par, "d")
CommandSr(c, par) == Handler(c, par) = "Sr" /\ SetTargetField(c, par, "r")
CommandSz(c, par) == Handler(c, par) = "Sz" /\ SetTargetField(c, par, "z")

\* mutant: only the lower bound is tested
HorizonAccepted_NoUpper(deg) == deg >= MinHorizon

\* deg >= -30 && deg <= 30
HorizonAccepted(deg) == deg >= MinHorizon /\ deg <= MaxHorizon

\* the error of a limit setter
LimitError(par, accepted) ==
  IF ~Parsed(par) THEN "CE_PARAM_FORM"
  ELSE IF accepted THEN "CE_NONE" ELSE "CE_PARAM_RANGE"

CommandSh(c, par) ==
  /\ Handler(c, par) = "Sh"
  /\ minAltitude' = IF Parsed(par) /\ HorizonAccepted(par.v)
                    THEN DegToRad(<<par.v, 0>>) ELSE minAltitude
  /\ commandError' = LimitError(par, HorizonAccepted(par.v))
  /\ RatesLeftAlone
  /\ Received(c, par)
  /\ UNCHANGED <<freqVars, trackingVars, gotoTarget, maxAltitude>>

\* deg >= 60 && deg <= 90
OverheadAccepted(deg) == deg >= MinOverhead /\ deg <= MaxOverhead

\* x > n for an angle x = degToRad(deg), pi taken as 355/113
ExceedsNumber(x, n) == x[1] * 355 > n * 180 * 113

\* limits.maxAltitude after an accepted :So
OverheadFor(type, deg) ==
  IF type = "ALTAZM" /\ ExceedsNumber(DegToRad(<<deg, 0>>), AltAzmOverhead)
  THEN <<AltAzmOverhead, 0>> ELSE DegToRad(<<deg, 0>>)

\* the test is command[1] == 'o' alone: every command whose second letter is
\* o and that no earlier handler took ends here
CommandSo(c, par) ==
  /\ Handler(c, par) = "So"
  /\ maxAltitude' = IF Parsed(par) /\ OverheadAccepted(par.v)
                    THEN OverheadFor(mountType, par.v) ELSE maxAltitude
  /\ commandError' = LimitError(par, OverheadAccepted(par.v))
  /\ RatesLeftAlone
  /\ Received(c, par)
  /\ UNCHANGED <<freqVars, trackingVars, gotoTarget, minAltitude>>

\* &parameter[0] != conv_end && ((f >= 30.0 && f < 90.0) || fabs(f) < 0.1)
RateAccepted(par) ==
  Parsed(par) /\ ((par.v >= MinRate /\ par.v < MaxRate) \/ Abs(par.v) < StopRate)

CommandST(c, par) ==
  /\ Handler(c, par) = "ST"
  /\ IF RateAccepted(par)
     THEN /\ trackingState' = IF Abs(par.v) < StopRate THEN "TS_NONE" ELSE "TS_SIDEREAL"
          /\ axis1Enabled' = IF Abs(par.v) >= StopRate /\ trackingState = "TS_NONE"
                             THEN EnabledAfter(axis1EnablePin, TRUE, axis1Enabled)
                             ELSE axis1Enabled
          /\ axis2Enabled' = IF Abs(par.v) >= StopRate /\ trackingState = "TS_NONE"
                             THEN EnabledAfter(axis2EnablePin, TRUE, axis2Enabled)
                             ELSE axis2Enabled
          /\ trackingRate' = IF Abs(par.v) < StopRate THEN trackingRate ELSE HzToSidereal(par.v)
          /\ UNCHANGED <<rateCompensation, generalErrors>>
          /\ commandError' = "CE_NONE"
          /\ UpdateTrackingRates
     ELSE /\ UNCHANGED trackingVars
          /\ commandError' = "CE_PARAM_RANGE"
          /\ RatesLeftAlone
  /\ Received(c, par)
  /\ UNCHANGED <<freqVars, gotoTarget, limitVars>>

\* ------------------------------------------ Mount::command, :T commands
NotAltAzm(type) == type # "ALTAZM"

\* rateCompensation after the first if-else chain (o, r, n); the chain ends
\* at n, with no else before the test for '1'
CompensationAfterMode(l, type, comp) ==
  IF l = "o" /\ NotAltAzm(type) THEN "RC_FULL_RA"
  ELSE IF l = "r" /\ NotAltAzm(type) THEN "RC_REFR_RA"
  ELSE IF l = "n" /\ NotAltAzm(type) THEN "RC_NONE"
  ELSE comp

\* mutant: :T1# takes the full dual mode to the refraction single mode
CompensationAfterAxes_CrossFamily(l, type, comp) ==
  IF l = "1" /\ NotAltAzm(type)
  THEN (IF comp \in {"RC_REFR_BOTH", "RC_FULL_BOTH"} THEN "RC_REFR_RA" ELSE comp)
  ELSE IF l = "2" /\ NotAltAzm(type)
  THEN (IF comp = "RC_REFR_RA" THEN "RC_REFR_BOTH"
        ELSE IF comp = "RC_FULL_RA" THEN "RC_FULL_BOTH" ELSE comp)
  ELSE IF l \in {"S", "K", "L"} THEN "RC_NONE"
  ELSE comp

\* rateCompensation after the second if-else chain
CompensationAfterAxes(l, type, comp) ==
  IF l = "1" /\ NotAltAzm(type)
  THEN (IF comp = "RC_REFR_BOTH" THEN "RC_REFR_RA"
        ELSE IF comp = "RC_FULL_BOTH" THEN "RC_FULL_RA" ELSE comp)
  ELSE IF l = "2" /\ NotAltAzm(type)
  THEN (IF comp = "RC_REFR_RA" THEN "RC_REFR_BOTH"
        ELSE IF comp = "RC_FULL_RA" THEN "RC_FULL_BOTH" ELSE comp)
  ELSE IF l \in {"S", "K", "L"} THEN "RC_NONE"
  ELSE comp

\* *commandError after the second if-else chain
TrackingError(l, type, park, goto, guide) ==
  IF l \in {"1", "2"} /\ NotAltAzm(type) THEN "CE_NONE"
  ELSE IF l \in {"S", "K", "L", "Q", "+", "-", "R"} THEN "CE_NONE"
  ELSE IF l = "e" THEN (IF park # "PS_PARKED" THEN "CE_NONE" ELSE "CE_PARKED")
  ELSE IF l = "d" THEN (IF goto = "GS_NONE" /\ guide = "GU_NONE"
                        THEN "CE_NONE" ELSE "CE_MOUNT_IN_MOTION")
  ELSE "CE_CMD_UNKNOWN"

\* trackingRate when the command returns
TrackingRateAfter(l, rate, err) ==
  IF l = "S" THEN HzToSidereal(SolarRate)
  ELSE IF l = "K" THEN HzToSidereal(KingRate)
  ELSE IF l = "L" THEN HzToSidereal(LunarRate)
  ELSE IF l = "Q" THEN HzToSidereal(SiderealRate)
  ELSE IF err = "CE_NONE" /\ l \in {"o", "r", "n"} THEN HzToSidereal(SiderealRate)
  ELSE rate

\* the clock period when the command returns
ClockPeriodAfter(l, p) ==
  IF l = "+" THEN p - TrimStep
  ELSE IF l = "-" THEN p + TrimStep
  ELSE IF l = "R" THEN ClockDenominator
  ELSE p

CommandT(c, par) ==
  LET l == c[2]
      err == TrackingError(l, mountType, parkState, gotoState, guideState)
      resumed == l = "e" /\ parkState # "PS_PARKED"
  IN /\ Handler(c, par) = "T"
     /\ ClockPeriodAfter(l, clockPeriod) \in ClockPeriods
     /\ rateCompensation' = CompensationAfterAxes(l, mountType,
                              CompensationAfterMode(l, mountType, rateCompensation))
     /\ trackingRate' = TrackingRateAfter(l, trackingRate, err)
     /\ trackingState' = IF resumed THEN "TS_SIDEREAL"
                         ELSE IF l = "d" /\ err = "CE_NONE" THEN "TS_NONE"
                         ELSE trackingState
     /\ axis1Enabled' = IF resumed THEN EnabledAfter(axis1EnablePin, TRUE, axis1Enabled)
                        ELSE axis1Enabled
     /\ axis2Enabled' = IF resumed THEN EnabledAfter(axis2EnablePin, TRUE, axis2Enabled)
                        ELSE axis2Enabled
     /\ generalErrors' = IF resumed THEN {} ELSE generalErrors
     /\ clockPeriod' = ClockPeriodAfter(l, clockPeriod)
     /\ freqCall' = IF clockPeriod' # clockPeriod THEN {} ELSE freqCall
     /\ commandError' = err
     /\ IF err = "CE_NONE" THEN UpdateTrackingRates ELSE RatesLeftAlone
     /\ Received(c, par)
     /\ UNCHANGED <<maxFreq, minPeriodMicros, lastPeriod, taskPeriod, gotoTarget, limitVars>>

\* ------------------------------------- Mount::command, :$B and :%B
MaxBacklashArcsec == 3600  \* arcSecs <= 3600

\* the parameter of :$B and :%B: the axis letter parameter[0], then the text
\* from parameter[1] on as the parser sees it
AxisParameter(letter, par) == [kind |-> par.kind, v |-> par.v, axis |-> letter]

\* arcSecs >= 0 && arcSecs <= 3600
BacklashAccepted(arcSecs) == arcSecs >= 0 /\ arcSecs <= MaxBacklashArcsec

\* *commandError of :$B
SetBacklashError(par) ==
  IF ~Parsed(par) THEN "CE_PARAM_FORM"
  ELSE IF ~BacklashAccepted(par.v) THEN "CE_PARAM_RANGE"
  ELSE IF par.axis \notin {"D", "R"} THEN "CE_CMD_UNKNOWN"
  ELSE "CE_NONE"

\* backlashAmountSteps after axis.setBacklash(arcsecToRad(arcSecs)), an
\* arc-second being 1/ValueDenominator measures
AmountFor(arcSecs) == Trunc(TimesSpm(arcSecs), ValueDenominator)

CommandSetBacklash(c, par) ==
  LET err == SetBacklashError(par)
  IN /\ Handler(c, par) = "$B"
     /\ pc = "idle"
     /\ backlashAmountSteps' = IF err = "CE_NONE" /\ par.axis = "R"
                               THEN AmountFor(par.v) ELSE backlashAmountSteps
     /\ axis2BacklashAmountSteps' = IF err = "CE_NONE" /\ par.axis = "D"
                                    THEN AmountFor(par.v) ELSE axis2BacklashAmountSteps
     /\ commandError' = err
     /\ command' = <<c, par>>
     /\ commandFlip' = ~commandFlip
     /\ RatesLeftAlone
     /\ UNCHANGED <<motorSteps, targetSteps, indexSteps, backlashSteps, target, takeStep,
                    dirFwd, tracking, stepPin, dirPin, intsEnabled, pc, arg, steps, unread,
                    nearSeen, relabel, lastSign, lastDirSign, targetSet>>
     /\ UNCHANGED <<freqVars, externalVars, trackingVars, correctionVars, gotoTarget,
                    limitVars, axis2BacklashSteps, reply, configVars>>

\* Axis::getBacklash of an axis whose backlashSteps is b, in arc-seconds as
\* (int)radToArcsec(b/spm)
GetBacklashArcsec(b) == Trunc(OverSpm(b), StepsPerMeasure)

\* if (arcSec < 0) arcSec = 0; if (arcSec > 3600) arcSec = 3600;
ClampArcsec(a) == IF a < 0 THEN 0 ELSE IF a > MaxBacklashArcsec THEN MaxBacklashArcsec ELSE a

\* the backlashSteps the reader of the given axis letter goes to: both
\* branches call axis2.getBacklash()
StepsReadFor(letter) == axis2BacklashSteps

\* the letter is followed by nothing
ReadAccepted(par) == par.axis \in {"D", "R"} /\ par.kind = "empty"

CommandGetBacklash(c, par) ==
  /\ Handler(c, par) = "%B"
  /\ reply' = IF ReadAccepted(par)
              THEN ClampArcsec(GetBacklashArcsec(StepsReadFor(par.axis))) ELSE reply
  /\ commandError' = IF ReadAccepted(par) THEN "CE_NONE" ELSE "CE_CMD_UNKNOWN"
  /\ command' = <<c, par>>
  /\ commandFlip' = ~commandFlip
  /\ RatesLeftAlone
  /\ UNCHANGED <<stepVars, freqVars, externalVars, trackingVars, correctionVars, gotoTarget,
                 limitVars, axis2BacklashAmountSteps, axis2BacklashSteps, configVars>>

\* axis 2's generator takes up or gives back one step of slack
Axis2Slack(b) ==
  /\ b \in {BacklashAfterStep(0, axis2BacklashSteps, axis2BacklashAmountSteps,
                              axis2BacklashSteps + Step),
            BacklashAfterStep(0, axis2BacklashSteps, axis2BacklashAmountSteps,
                              axis2BacklashSteps - Step)}
  /\ b # axis2BacklashSteps
  /\ axis2BacklashSteps' = b
  /\ UNCHANGED <<stepVars, freqVars, externalVars, trackingVars, rateVars, correctionVars,
                 gotoTarget, limitVars, commandVars, axis2BacklashAmountSteps, reply,
                 configVars>>

\* ---------------------------------------------- the mount's collaborators
\* the park, goto and guide state machines move
ExternalState(park, goto, guide) ==
  /\ parkState' = park
  /\ gotoState' = goto
  /\ guideState' = guide
  /\ UNCHANGED <<mountType, stepVars, freqVars, trackingVars, rateVars, correctionVars,
                 gotoTarget, limitVars, commandVars, axis2Vars, configVars>>

\* the limit, sync or park code raises a general error flag
GeneralErrorRaised(flag) ==
  /\ Cardinality(generalErrors) < MaxRaised
  /\ generalErrors' = generalErrors \cup {flag}
  /\ UNCHANGED <<stepVars, freqVars, externalVars, trackingState, rateCompensation,
                 trackingRate, axis1Enabled, axis2Enabled, rateVars, correctionVars,
                 gotoTarget, limitVars, commandVars, axis2Vars, configVars>>

\* updateTrackingRates() called on its own
MountUpdateTrackingRates ==
  /\ ~ratesUpdated
  /\ UNCHANGED <<stepVars, freqVars, externalVars, trackingVars, correctionVars,
                 gotoTarget, limitVars, commandError, command, commandFlip, axis2Vars,
                 configVars>>
  /\ UpdateTrackingRates

\* ------------------------------------------------------------------ Init
Init ==
  /\ motorSteps = 0
  /\ targetSteps = 0
  /\ indexSteps = 0
  /\ backlashSteps = 0
  /\ backlashAmountSteps = 0
  /\ target = 0
  /\ takeStep = FALSE
  /\ dirFwd = FALSE
  /\ tracking = FALSE
  /\ stepPin = StepIdle
  /\ dirPin = DirForward
  /\ intsEnabled = TRUE
  /\ pc = "idle"
  /\ arg = 0
  /\ steps = 0
  /\ unread = {}
  /\ nearSeen = {}
  /\ relabel = {}
  /\ lastSign = 0
  /\ lastDirSign = 0
  /\ targetSet = {}
  /\ InitFrequency
  /\ InitMount({"GEM"})

\* ------------------------------------------------- interrupt masking
\* mutant: the call does not mask the timer interrupt
NoInterrupts_Dropped == intsEnabled' = TRUE

NoInterrupts == intsEnabled' = FALSE

\* mutant: the call returns without unmasking the timer interrupt
Interrupts_Dropped == intsEnabled' = FALSE

Interrupts == intsEnabled' = TRUE

history == <<nearSeen, relabel, lastSign, lastDirSign, targetSet>>

\* ------------------------------- Axis::setMotorCoordinate(Steps)
SetMotorCoordinate(n) ==
  /\ pc = "idle"
  /\ Lround(TimesSpm(n), ValueDenominator) \in StepRange
  /\ arg' = Lround(TimesSpm(n), ValueDenominator)
  /\ pc' = "smcs_index"
  /\ UNCHANGED <<axisVars, indexSteps, intsEnabled, steps, unread, history>>
  /\ UNCHANGED nonStepVars

SetMotorCoordinateSteps(s) ==
  /\ pc = "idle"
  /\ arg' = s
  /\ pc' = "smcs_index"
  /\ UNCHANGED <<axisVars, indexSteps, intsEnabled, steps, unread, history>>
  /\ UNCHANGED nonStepVars

\* indexSteps = 0;  (before noInterrupts)
SmcsIndex ==
  /\ pc = "smcs_index"
  /\ indexSteps' = 0
  /\ pc' = "smcs_motor"
  /\ relabel' = {}
  /\ targetSet' = {}
  /\ UNCHANGED <<motorSteps, targetSteps, backlashSteps, backlashAmountSteps, target,
                 takeStep, dirFwd, tracking, stepPin, dirPin, intsEnabled, arg, steps,
                 unread, nearSeen, lastSign, lastDirSign>>
  /\ UNCHANGED nonStepVars

\* noInterrupts(); motorSteps = value;
SmcsMotor ==
  /\ pc = "smcs_motor"
  /\ NoInterrupts
  /\ motorSteps' = arg
  /\ pc' = "smcs_target"
  /\ UNCHANGED <<targetSteps, indexSteps, backlashSteps, backlashAmountSteps, target,
                 takeStep, dirFwd, tracking, stepPin, dirPin, arg, steps, unread, history>>
  /\ UNCHANGED nonStepVars

\* targetSteps = value;
SmcsTarget ==
  /\ pc = "smcs_target"
  /\ targetSteps' = arg
  /\ pc' = "smcs_backlash"
  /\ UNCHANGED <<motorSteps, indexSteps, backlashSteps, backlashAmountSteps, target,
                 takeStep, dirFwd, tracking, stepPin, dirPin, intsEnabled, arg, steps,
                 unread, history>>
  /\ UNCHANGED nonStepVars

\* backlashSteps = 0; interrupts(); return
SmcsBacklash ==
  /\ pc = "smcs_backlash"
  /\ backlashSteps' = 0
  /\ Interrupts
  /\ pc' = "idle"
  /\ arg' = 0
  /\ UNCHANGED <<motorSteps, targetSteps, indexSteps, backlashAmountSteps, target,
                 takeStep, dirFwd, tracking, stepPin, dirPin, steps, unread, history>>
  /\ UNCHANGED nonStepVars

\* ------------------------------------ Axis::getMotorCoordinateSteps
\* noInterrupts(); load motorSteps
GmcsEnter ==
  /\ pc = "idle"
  /\ NoInterrupts
  /\ steps' = motorSteps
  /\ pc' = "gmcs_add"
  /\ UNCHANGED <<axisVars, indexSteps, arg, unread, history>>
  /\ UNCHANGED nonStepVars

\* long steps = motorSteps + backlashSteps;
GmcsAdd ==
  /\ pc = "gmcs_add"
  /\ steps' = steps + backlashSteps
  /\ pc' = "gmcs_ret"
  /\ UNCHANGED <<axisVars, indexSteps, intsEnabled, arg, unread, history>>
  /\ UNCHANGED nonStepVars

\* interrupts(); return steps;
GmcsReturn ==
  /\ pc = "gmcs_ret"
  /\ Interrupts
  /\ steps' = 0
  /\ pc' = "idle"
  /\ UNCHANGED <<axisVars, indexSteps, arg, unread, history>>
  /\ UNCHANGED nonStepVars

\* ------------------------------- Axis::getInstrumentCoordinateSteps
GicsEnter ==
  /\ pc = "idle"
  /\ NoInterrupts
  /\ steps' = motorSteps
  /\ pc' = "gics_add"
  /\ UNCHANGED <<axisVars, indexSteps, arg, unread, history>>
  /\ UNCHANGED nonStepVars

\* long steps = motorSteps + indexSteps;
GicsAdd ==
  /\ pc = "gics_add"
  /\ steps' = steps + indexSteps
  /\ pc' = "gics_ret"
  /\ UNCHANGED <<axisVars, indexSteps, intsEnabled, arg, unread, history>>
  /\ UNCHANGED nonStepVars

GicsReturn ==
  /\ pc = "gics_ret"
  /\ Interrupts
  /\ steps' = 0
  /\ pc' = "idle"
  /\ UNCHANGED <<axisVars, indexSteps, arg, unread, history>>
  /\ UNCHANGED nonStepVars

\* ------------------------------------ Axis::setInstrumentCoordinate
\* long steps = value*spm; noInterrupts();
SetInstrumentCoordinate(n) ==
  /\ pc = "idle"
  /\ Trunc(TimesSpm(n), ValueDenominator) - motorSteps \in StepRange
  /\ steps' = Trunc(TimesSpm(n), ValueDenominator)
  /\ arg' = n
  /\ NoInterrupts
  /\ pc' = "sic_write"
  /\ UNCHANGED <<axisVars, indexSteps, unread, history>>
  /\ UNCHANGED nonStepVars

\* mutant: the motor position is not subtracted
IndexFor_NoMotor(s, m) == s

\* indexSteps after `indexSteps = steps - motorSteps`
IndexFor(s, m) == s - m

\* indexSteps = steps - motorSteps; interrupts(); return
SicWrite ==
  /\ pc = "sic_write"
  /\ indexSteps' = IndexFor(steps, motorSteps)
  /\ Interrupts
  /\ relabel' = {arg}
  /\ targetSet' = {}
  /\ steps' = 0
  /\ arg' = 0
  /\ pc' = "idle"
  /\ UNCHANGED <<axisVars, unread, nearSeen, lastSign, lastDirSign>>
  /\ UNCHANGED nonStepVars

\* ------------------------------------ Axis::getInstrumentCoordinate
GicEnter ==
  /\ pc = "idle"
  /\ NoInterrupts
  /\ steps' = motorSteps
  /\ pc' = "gic_add"
  /\ UNCHANGED <<axisVars, indexSteps, arg, unread, history>>
  /\ UNCHANGED nonStepVars

GicAdd ==
  /\ pc = "gic_add"
  /\ steps' = steps + indexSteps
  /\ pc' = "gic_ret"
  /\ UNCHANGED <<axisVars, indexSteps, intsEnabled, arg, unread, history>>
  /\ UNCHANGED nonStepVars

\* interrupts(); return steps / spm;
GicReturn ==
  /\ pc = "gic_ret"
  /\ Interrupts
  /\ steps' = 0
  /\ pc' = "idle"
  /\ UNCHANGED <<axisVars, indexSteps, arg, unread, history>>
  /\ UNCHANGED nonStepVars

\* ---------------------- Axis::setTargetCoordinate / moveTargetCoordinate
\* target = value*spm; long steps = lround(target); noInterrupts();
SetTargetCoordinate(n) ==
  /\ pc = "idle"
  /\ Lround(TimesSpm(n), ValueDenominator) - indexSteps \in StepRange
  /\ target' = TimesSpm(n)
  /\ steps' = Lround(target', ValueDenominator)
  /\ NoInterrupts
  /\ pc' = "tc_write"
  /\ targetSet' = {n}
  /\ UNCHANGED <<motorSteps, targetSteps, indexSteps, backlashSteps, backlashAmountSteps,
                 takeStep, dirFwd, tracking, stepPin, dirPin, arg, unread,
                 nearSeen, relabel, lastSign, lastDirSign>>
  /\ UNCHANGED nonStepVars

\* target += value*spm; long steps = lround(target); noInterrupts();
MoveTargetCoordinate(n) ==
  /\ pc = "idle"
  /\ target + TimesSpm(n) \in TargetRange
  /\ Lround(target + TimesSpm(n), ValueDenominator) - indexSteps \in StepRange
  /\ target' = target + TimesSpm(n)
  /\ steps' = Lround(target', ValueDenominator)
  /\ NoInterrupts
  /\ pc' = "tc_write"
  /\ targetSet' = {}
  /\ UNCHANGED <<motorSteps, targetSteps, indexSteps, backlashSteps, backlashAmountSteps,
                 takeStep, dirFwd, tracking, stepPin, dirPin, arg, unread,
                 nearSeen, relabel, lastSign, lastDirSign>>
  /\ UNCHANGED nonStepVars

\* mutant: the index is not subtracted
TargetFor_NoIndex(s, idx) == s

\* targetSteps after `targetSteps = steps - indexSteps`
TargetFor(s, idx) == s - idx

\* targetSteps = steps - indexSteps; interrupts(); return
TcWrite ==
  /\ pc = "tc_write"
  /\ targetSteps' = TargetFor(steps, indexSteps)
  /\ Interrupts
  /\ steps' = 0
  /\ pc' = "idle"
  /\ UNCHANGED <<motorSteps, indexSteps, backlashSteps, backlashAmountSteps, target,
                 takeStep, dirFwd, tracking, stepPin, dirPin, arg, unread, history>>
  /\ UNCHANGED nonStepVars

\* ---------------------------------------- Axis::getTargetCoordinate
\* noInterrupts(); load targetSteps
GtcEnter ==
  /\ pc = "idle"
  /\ NoInterrupts
  /\ steps' = targetSteps
  /\ pc' = "gtc_add"
  /\ UNCHANGED <<axisVars, indexSteps, arg, unread, history>>
  /\ UNCHANGED nonStepVars

\* long steps = targetSteps + indexSteps;
GtcAdd ==
  /\ pc = "gtc_add"
  /\ steps' = steps + indexSteps
  /\ pc' = "gtc_ret"
  /\ UNCHANGED <<axisVars, indexSteps, intsEnabled, arg, unread, history>>
  /\ UNCHANGED nonStepVars

\* interrupts(); return steps/spm;
GtcReturn ==
  /\ pc = "gtc_ret"
  /\ Interrupts
  /\ steps' = 0
  /\ pc' = "idle"
  /\ UNCHANGED <<axisVars, indexSteps, arg, unread, history>>
  /\ UNCHANGED nonStepVars

\* ------------------------------------------------- Axis::nearTarget
\* the expression loads motorSteps, backlashSteps and targetSteps with
\* interrupts enabled; the order of the three loads is the compiler's choice
NearTargetCall ==
  /\ pc = "idle"
  /\ unread' = {"motorSteps", "backlashSteps", "targetSteps"}
  /\ steps' = 0
  /\ nearSeen' = {NearValue(motorSteps, backlashSteps, targetSteps)}
  /\ pc' = "nt_read"
  /\ UNCHANGED <<axisVars, indexSteps, intsEnabled, arg, relabel, lastSign, lastDirSign,
                 targetSet>>
  /\ UNCHANGED nonStepVars

Loaded(f) ==
  CASE f = "motorSteps" -> motorSteps
    [] f = "backlashSteps" -> backlashSteps
    [] f = "targetSteps" -> -targetSteps

NearTargetLoad(f) ==
  /\ pc = "nt_read"
  /\ f \in unread
  /\ steps' = steps + Loaded(f)
  /\ unread' = unread \ {f}
  /\ pc' = IF unread' = {} THEN "nt_ret" ELSE "nt_read"
  /\ UNCHANGED <<axisVars, indexSteps, intsEnabled, arg, history>>
  /\ UNCHANGED nonStepVars

\* the value nearTarget returns once (motorSteps + backlashSteps) - targetSteps is in steps
NearResult == Abs(steps) <= Step * 2

NearTargetReturn ==
  /\ pc = "nt_ret"
  /\ steps' = 0
  /\ nearSeen' = {}
  /\ pc' = "idle"
  /\ UNCHANGED <<axisVars, indexSteps, intsEnabled, arg, unread, relabel, lastSign,
                 lastDirSign, targetSet>>
  /\ UNCHANGED nonStepVars

\* ------------------------------- Axis::setTracking / Axis::setBacklash
SetTracking(v) ==
  /\ pc = "idle"
  /\ tracking' = v
  /\ UNCHANGED <<motorSteps, targetSteps, indexSteps, backlashSteps, backlashAmountSteps,
                 target, takeStep, dirFwd, stepPin, dirPin, intsEnabled, pc, arg, steps,
                 unread, history>>
  /\ UNCHANGED nonStepVars

\* backlashAmountSteps = value * spm;
SetBacklash(n) ==
  /\ pc = "idle"
  /\ backlashAmountSteps' = Trunc(TimesSpm(n), ValueDenominator)
  /\ UNCHANGED <<motorSteps, targetSteps, indexSteps, backlashSteps, target, takeStep,
                 dirFwd, tracking, stepPin, dirPin, intsEnabled, pc, arg, steps, unread,
                 history>>
  /\ UNCHANGED nonStepVars

\* the command context makes no further call that changes the target
Settle ==
  /\ pc = "idle"
  /\ pc' = "settled"
  /\ UNCHANGED <<axisVars, indexSteps, intsEnabled, arg, steps, unread, history>>
  /\ UNCHANGED nonStepVars

\* setBacklash called after the last target change
SetBacklashSettled(n) ==
  /\ pc = "settled"
  /\ backlashAmountSteps' = Trunc(TimesSpm(n), ValueDenominator)
  /\ UNCHANGED <<motorSteps, targetSteps, indexSteps, backlashSteps, target, takeStep,
                 dirFwd, tracking, stepPin, dirPin, intsEnabled, pc, arg, steps, unread,
                 history>>
  /\ UNCHANGED nonStepVars

\* the command context makes no further call at all
Halt ==
  /\ pc \in {"idle", "settled"}
  /\ pc' = "halt"
  /\ UNCHANGED <<axisVars, indexSteps, intsEnabled, arg, steps, unread, history>>
  /\ UNCHANGED nonStepVars

\* ------------------------------------------------------- specifications
SetMotorCoordinateCall == \E n \in Values : SetMotorCoordinate(n)
SetMotorCoordinateStepsCall == \E s \in StepRange : SetMotorCoordinateSteps(s)
SetInstrumentCoordinateCall == \E n \in Values : SetInstrumentCoordinate(n)
SetTargetCoordinateCall == \E n \in Values : SetTargetCoordinate(n)
MoveTargetCoordinateCall == \E n \in Values : MoveTargetCoordinate(n)
NearTargetLoads == \E f \in unread : NearTargetLoad(f)
SetTrackingCall == \E v \in BOOLEAN : SetTracking(v)
SetBacklashCall == \E n \in BacklashValues : SetBacklash(n)
SetBacklashSettledCall == \E n \in BacklashValues : SetBacklashSettled(n)

\* commands that change the target or the backlash, and the generator
Next ==
  \/ Move
  \/ SetMotorCoordinateStepsCall
  \/ SmcsIndex
  \/ SmcsMotor
  \/ SmcsTarget
  \/ SmcsBacklash
  \/ SetTargetCoordinateCall
  \/ MoveTargetCoordinateCall
  \/ TcWrite
  \/ SetTrackingCall
  \/ SetBacklashCall

Spec == Init /\ [][Next]_vars

\* the same with the backlash amount configured once, before any motion
InitFixed ==
  \E n \in BacklashValues :
    /\ backlashAmountSteps = Trunc(TimesSpm(n), ValueDenominator)
    /\ motorSteps = 0
    /\ targetSteps = 0
    /\ indexSteps = 0
    /\ backlashSteps = 0
    /\ target = 0
    /\ takeStep = FALSE
    /\ dirFwd = FALSE
    /\ tracking = FALSE
    /\ stepPin = StepIdle
    /\ dirPin = DirForward
    /\ intsEnabled = TRUE
    /\ pc = "idle"
    /\ arg = 0
    /\ steps = 0
    /\ unread = {}
    /\ nearSeen = {}
    /\ relabel = {}
  /\ lastSign = 0
  /\ lastDirSign = 0
  /\ targetSet = {}
  /\ InitFrequency
  /\ InitMount({"GEM"})

NextFixed ==
  \/ Move
  \/ SetMotorCoordinateStepsCall
  \/ SmcsIndex
  \/ SmcsMotor
  \/ SmcsTarget
  \/ SmcsBacklash
  \/ SetTargetCoordinateCall
  \/ MoveTargetCoordinateCall
  \/ TcWrite
  \/ SetTrackingCall

SpecFixed == InitFixed /\ [][NextFixed]_vars

\* the coordinate API against the generator
NextCoord ==
  \/ Move
  \/ SetMotorCoordinateCall
  \/ SmcsIndex
  \/ SmcsMotor
  \/ SmcsTarget
  \/ SmcsBacklash
  \/ GmcsEnter
  \/ GmcsAdd
  \/ GmcsReturn
  \/ GicsEnter
  \/ GicsAdd
  \/ GicsReturn
  \/ SetInstrumentCoordinateCall
  \/ SicWrite
  \/ GicEnter
  \/ GicAdd
  \/ GicReturn
  \/ SetTargetCoordinateCall
  \/ TcWrite

SpecCoord == InitFixed /\ [][NextCoord]_vars

\* nearTarget against the generator
NextNear ==
  \/ Move
  \/ SetTargetCoordinateCall
  \/ TcWrite
  \/ SetTrackingCall
  \/ NearTargetCall
  \/ NearTargetLoads
  \/ NearTargetReturn

SpecNear == InitFixed /\ [][NextNear]_vars

\* the command context stops calling, the generator keeps ticking
NextSettle ==
  \/ Move
  \/ SetTargetCoordinateCall
  \/ TcWrite
  \/ SetTrackingCall
  \/ SetBacklashCall
  \/ Settle
  \/ SetBacklashSettledCall
  \/ Halt

SpecSettle == Init /\ [][NextSettle]_vars /\ WF_vars(Move)

\* the target API against the generator, the index and tracking
NextTarget ==
  \/ Move
  \/ SetInstrumentCoordinateCall
  \/ SicWrite
  \/ SetTargetCoordinateCall
  \/ MoveTargetCoordinateCall
  \/ TcWrite
  \/ GtcEnter
  \/ GtcAdd
  \/ GtcReturn
  \/ SetTrackingCall

SpecTarget == InitFixed /\ [][NextTarget]_vars

\* the frequency-to-period conversion against the ceiling and the clock
SetFrequencyMaxCall ==
  /\ pc = "idle"
  /\ \E f \in CeilingFrequencies : SetFrequencyMax(f)
  /\ UNCHANGED <<stepVars, mountVars>>

SetFrequencyCall ==
  /\ pc = "idle"
  /\ \E f \in Frequencies : SetFrequency(f)
  /\ UNCHANGED <<stepVars, mountVars>>

ClockSetPeriodSubMicrosCall ==
  /\ pc = "idle"
  /\ \E p \in ClockPeriods : ClockSetPeriodSubMicros(p)
  /\ UNCHANGED <<stepVars, mountVars>>

NextFrequency ==
  \/ SetFrequencyMaxCall
  \/ SetFrequencyCall
  \/ ClockSetPeriodSubMicrosCall

SpecFrequency == Init /\ [][NextFrequency]_vars

\* ---------------------------------------------------- the mount alone
\* the axes at rest, as in Init
StepVarsAtRest ==
  /\ motorSteps = 0
  /\ targetSteps = 0
  /\ indexSteps = 0
  /\ backlashSteps = 0
  /\ backlashAmountSteps = 0
  /\ target = 0
  /\ takeStep = FALSE
  /\ dirFwd = FALSE
  /\ tracking = FALSE
  /\ stepPin = StepIdle
  /\ dirPin = DirForward
  /\ intsEnabled = TRUE
  /\ pc = "idle"
  /\ arg = 0
  /\ steps = 0
  /\ unread = {}
  /\ nearSeen = {}
  /\ relabel = {}
  /\ lastSign = 0
  /\ lastDirSign = 0
  /\ targetSet = {}

InitAnyMount == StepVarsAtRest /\ InitFrequency /\ InitMount(MountTypes)

Corrections == (-MaxCorrection)..MaxCorrection
PriorRates == {0, HzToSidereal(LunarRate)}

\* every input of updateTrackingRates drawn from its values
InitRates ==
  /\ StepVarsAtRest
  /\ InitFrequency
  /\ mountType \in MountTypes
  /\ trackingState \in TrackingStates
  /\ rateCompensation \in RateCompensations
  /\ trackingRate \in {HzToSidereal(SiderealRate), HzToSidereal(SolarRate)}
  /\ trackingRateAxis1 \in PriorRates
  /\ trackingRateAxis2 \in PriorRates
  /\ guideRateAxis1 \in Corrections
  /\ guideRateAxis2 \in Corrections
  /\ deltaRateAxis1 \in Corrections
  /\ deltaRateAxis2 \in Corrections
  /\ axis1Frequency = <<0, 1>>
  /\ axis2Frequency = <<0, 1>>
  /\ axis1Enabled = TRUE
  /\ axis2Enabled = TRUE
  /\ parkState = "PS_UNPARKED"
  /\ gotoState = "GS_NONE"
  /\ guideState = "GU_NONE"
  /\ generalErrors = {}
  /\ gotoTarget = [a |-> <<0, 1>>, d |-> <<0, 1>>, r |-> <<0, 1>>, z |-> <<0, 1>>]
  /\ minAltitude = DegToRad(<<-10, 0>>)
  /\ maxAltitude = DegToRad(<<85, 0>>)
  /\ commandError = "CE_NONE"
  /\ command = <<<<"", "">>, Empty>>
  /\ commandFlip = FALSE
  /\ ratesUpdated = FALSE
  /\ InitAxis2
  /\ InitConfig

SpecRates == InitRates /\ [][MountUpdateTrackingRates]_vars

TrackingLetters == {"o", "r", "n", "1", "2", "S", "K", "L", "Q", "+", "-", "R", "e", "d", "x"}
RateParameters ==
  {Empty, Bad} \cup {Num(f) : f \in {0, StopRate - 1, StopRate, MinRate - 1, MinRate, SolarRate,
                                     MaxRate - 1, MaxRate, -(StopRate - 1), -SolarRate}}
DegreeParameters == {Empty, Bad} \cup {Num(d) : d \in (-MaxDegree)..MaxDegree}
CoordinateParameters == {Empty, Bad} \cup {Num(v) : v \in 0..MaxCoordinate}
ParkStates == {"PS_UNPARKED", "PS_PARKED"}
GotoStates == {"GS_NONE", "GS_GOTO"}
GuideStates == {"GU_NONE", "GU_GUIDE"}

TrackingCommand == \E l \in TrackingLetters : CommandT(<<"T", l>>, Empty)
ModeCommandAsLimit == \E par \in {Empty} : CommandSo(<<"T", "o">>, par)
RateCommand == \E par \in RateParameters : CommandST(<<"S", "T">>, par)
ExternalStateChange ==
  \E park \in ParkStates, goto \in GotoStates, guide \in GuideStates :
    ExternalState(park, goto, guide)

\* the tracking commands against the park, goto and guide state machines
NextTracking ==
  \/ TrackingCommand
  \/ ModeCommandAsLimit
  \/ RateCommand
  \/ ExternalStateChange

SpecTracking == InitAnyMount /\ [][NextTracking]_vars

\* the same from every compensation mode the mount may have been left in
InitAnyMode == StepVarsAtRest /\ InitFrequency /\ InitMountIn(MountTypes, RateCompensations)

SpecModes == InitAnyMode /\ [][NextTracking]_vars

HorizonCommand == \E par \in DegreeParameters : CommandSh(<<"S", "h">>, par)

\* the horizon-limit setter
SpecHorizon == InitAnyMount /\ [][HorizonCommand]_vars

AltitudeCommand == \E par \in CoordinateParameters : CommandSa(<<"S", "a">>, par)
DeclinationCommand == \E par \in CoordinateParameters : CommandSd(<<"S", "d">>, par)
RightAscensionCommand == \E par \in CoordinateParameters : CommandSr(<<"S", "r">>, par)
AzimuthCommand == \E par \in CoordinateParameters : CommandSz(<<"S", "z">>, par)

\* the target-coordinate setters
NextGotoTarget ==
  \/ AltitudeCommand
  \/ DeclinationCommand
  \/ RightAscensionCommand
  \/ AzimuthCommand

SpecGotoTarget == Init /\ [][NextGotoTarget]_vars

\* the mount receiving :So commands only
OverheadParameters ==
  {Empty, Bad} \cup {Num(d) : d \in (MinOverhead - MaxMargin)..(MaxOverhead + MaxMargin)}
OverheadCommand == \E par \in OverheadParameters : CommandSo(<<"S", "o">>, par)

SpecOverhead == InitAnyMount /\ [][OverheadCommand]_vars

\* stopping and resuming tracking while general error flags are raised
ResumeCommand == \E l \in {"e", "d"} : CommandT(<<"T", l>>, Empty)
ParkStateChange == \E park \in ParkStates : ExternalState(park, gotoState, guideState)
GeneralErrorRaisedCall == \E flag \in GeneralErrorFlags : GeneralErrorRaised(flag)

NextErrors ==
  \/ ResumeCommand
  \/ RateCommand
  \/ ParkStateChange
  \/ GeneralErrorRaisedCall

SpecErrors == InitAnyMount /\ [][NextErrors]_vars

\* the backlash of both axes set and read through the mount's commands
ArcsecParameters ==
  {Empty, Bad} \cup {Num(a) : a \in (-1)..MaxBacklashValue} \cup {Num(MaxBacklashArcsec + 1)}
AxisLetters == {"R", "D", "X"}

SetBacklashCommand ==
  \E letter \in AxisLetters, par \in ArcsecParameters :
    CommandSetBacklash(<<"$", "B">>, AxisParameter(letter, par))
GetBacklashCommand ==
  \E letter \in AxisLetters, par \in {Empty, Bad} :
    CommandGetBacklash(<<"%", "B">>, AxisParameter(letter, par))
Axis2SlackStep == \E b \in 0..(MaxBacklashValue * StepsPerMeasure) : Axis2Slack(b)

NextBacklash ==
  \/ SetBacklashCommand
  \/ GetBacklashCommand
  \/ Axis2SlackStep

SpecBacklash == Init /\ [][NextBacklash]_vars

\* ---------------------------------------------------------- Mount::init
QuarterTurn == 21600       \* degToRad(90.0), in siderealToRad(1.0)
SlewTurn == 960            \* degToRad(4.0), in siderealToRad(1.0)

\* an angle of n siderealToRad(1.0), in steps times FrequencyDenominator
AngleSteps(n) == n * siderealScale * StepsPerMeasure

\* long steps = value*spm for value = degToRad(90.0)
OriginSteps == Trunc(AngleSteps(QuarterTurn), FrequencyDenominator)

\* siderealToRad(n) for a rate n in 1/1000 Hz, in measures per second
RadPerSecond(n) == Ratio(n * siderealScale, SiderealRate * FrequencyDenominator)

\* degToRad(4.0), in measures per second
SlewRate == Ratio(SlewTurn * siderealScale, FrequencyDenominator)

\* Mount::init(type), from the mount and the axes as constructed; the axes'
\* tasks have period 0 until setFrequency programs them, so no tick falls
\* inside
MountInit(type) ==
  LET rate1 == RateAxis1(type, "TS_SIDEREAL", HzToSidereal(SiderealRate), trackingRateAxis1)
      rate2 == RateAxis2(type, "TS_SIDEREAL", rateCompensation, trackingRateAxis2)
      floor == MicrosPer(StepsPerSecond(SlewRate))
      f1 == RadPerSecond(rate1 + guideRateAxis1 + deltaRateAxis1)
  IN /\ ~mountReady
     /\ pc = "idle"
     /\ mountType' = type
     /\ minSteps' = LimitSteps(AxisMin)
     /\ maxSteps' = LimitSteps(AxisMax)
     /\ indexSteps' = IndexFor(OriginSteps, motorSteps)
     /\ axis2IndexSteps' = IndexFor(OriginSteps, 0)
     /\ axis1Enabled' = EnabledAfter(axis1EnablePin, TRUE,
                                     EnabledAfter(axis1EnablePin, FALSE, axis1Enabled))
     /\ axis2Enabled' = EnabledAfter(axis2EnablePin, TRUE,
                                     EnabledAfter(axis2EnablePin, FALSE, axis2Enabled))
     /\ trackingState' = "TS_SIDEREAL"
     /\ maxFreq' = StepsPerSecond(SlewRate)
     /\ minPeriodMicros' = floor
     /\ tracking' = TRUE
     /\ trackingRate' = HzToSidereal(SiderealRate)
     /\ trackingRateAxis1' = rate1
     /\ trackingRateAxis2' = rate2
     /\ axis1Frequency' = SiderealToRad(rate1 + guideRateAxis1 + deltaRateAxis1)
     /\ axis2Frequency' = SiderealToRad(rate2 + guideRateAxis2 + deltaRateAxis2)
     /\ ratesUpdated' = TRUE
     /\ lastPeriod' = LastPeriodFor(HalfPeriod(f1, floor))
     /\ taskPeriod' = TaskPeriodFor(HalfPeriod(f1, floor), clockPeriod)
     /\ freqCall' = {f1}
     /\ mountReady' = TRUE
     /\ UNCHANGED <<motorSteps, targetSteps, backlashSteps, backlashAmountSteps, target,
                    takeStep, dirFwd, stepPin, dirPin, intsEnabled, pc, arg, steps, unread,
                    history>>
     /\ UNCHANGED <<clockPeriod, parkState, gotoState, guideState, rateCompensation,
                    generalErrors, correctionVars, gotoTarget, limitVars, commandError,
                    command, commandFlip, axis2Vars, axis1EnablePin, axis2EnablePin,
                    siderealScale>>

\* the mount and both axes as constructed, before Mount::init
InitConstructed ==
  /\ StepVarsAtRest
  /\ InitFrequency
  /\ mountType \in MountTypes
  /\ trackingState = "TS_NONE"
  /\ rateCompensation = "RC_NONE"
  /\ trackingRate = 0
  /\ trackingRateAxis1 = 0
  /\ trackingRateAxis2 = 0
  /\ guideRateAxis1 = 0
  /\ guideRateAxis2 = 0
  /\ deltaRateAxis1 = 0
  /\ deltaRateAxis2 = 0
  /\ axis1Frequency = <<0, 1>>
  /\ axis2Frequency = <<0, 1>>
  /\ axis1Enabled \in BOOLEAN
  /\ axis2Enabled \in BOOLEAN
  /\ parkState = "PS_UNPARKED"
  /\ gotoState = "GS_NONE"
  /\ guideState = "GU_NONE"
  /\ generalErrors = {}
  /\ gotoTarget = [a |-> <<0, 1>>, d |-> <<0, 1>>, r |-> <<0, 1>>, z |-> <<0, 1>>]
  /\ minAltitude = DegToRad(<<-10, 0>>)
  /\ maxAltitude = DegToRad(<<85, 0>>)
  /\ commandError = "CE_NONE"
  /\ command = <<<<"", "">>, Empty>>
  /\ commandFlip = FALSE
  /\ ratesUpdated = FALSE
  /\ InitAxis2
  /\ axis1EnablePin \in {"OFF", "PIN"}
  /\ axis2EnablePin \in {"OFF", "PIN"}
  /\ axis2IndexSteps = 0
  /\ siderealScale \in 1..MaxFrequency
  /\ mountReady = FALSE
  /\ minSteps = 0
  /\ maxSteps = 0

MountInitCall == \E type \in MountTypes : MountInit(type)

\* Mount::init, then the generator of axis 1
NextInit ==
  \/ MountInitCall
  \/ (mountReady /\ taskPeriod # 0 /\ Move)

SpecInit == InitConstructed /\ [][NextInit]_vars

\* the target API against the calls that move the index or the motor coordinate,
\* with the generator stopped
NextShift ==
  \/ SetMotorCoordinateCall
  \/ SetMotorCoordinateStepsCall
  \/ SmcsIndex
  \/ SmcsMotor
  \/ SmcsTarget
  \/ SmcsBacklash
  \/ SetInstrumentCoordinateCall
  \/ SicWrite
  \/ SetTargetCoordinateCall
  \/ MoveTargetCoordinateCall
  \/ TcWrite

SpecShift == InitFixed /\ [][NextShift]_vars

\* target changes and the generator, from the position 0 inside the limits
NextLimits ==
  \/ Move
  \/ SetTargetCoordinateCall
  \/ MoveTargetCoordinateCall
  \/ TcWrite
  \/ SetTrackingCall

SpecLimits == InitFixed /\ [][NextLimits]_vars

\* the steps a call of the coordinate API takes after it was entered
CallStep ==
  \/ SmcsIndex
  \/ SmcsMotor
  \/ SmcsTarget
  \/ SmcsBacklash
  \/ GmcsAdd
  \/ GmcsReturn
  \/ GicsAdd
  \/ GicsReturn
  \/ SicWrite
  \/ GicAdd
  \/ GicReturn
  \/ TcWrite
  \/ GtcAdd
  \/ GtcReturn

\* one measure either way
UnitValues == {-ValueDenominator, ValueDenominator}

SetMotorCoordinateUnit == \E n \in UnitValues : SetMotorCoordinate(n)
SetInstrumentCoordinateUnit == \E n \in UnitValues : SetInstrumentCoordinate(n)
SetTargetCoordinateUnit == \E n \in UnitValues : SetTargetCoordinate(n)
MoveTargetCoordinateUnit == \E n \in UnitValues : MoveTargetCoordinate(n)

\* every call of the coordinate API that masks the timer interrupt, against
\* the generator; a call that was entered runs on to its return
NextSections ==
  \/ Move
  \/ SetMotorCoordinateUnit
  \/ GmcsEnter
  \/ GicsEnter
  \/ SetInstrumentCoordinateUnit
  \/ GicEnter
  \/ SetTargetCoordinateUnit
  \/ MoveTargetCoordinateUnit
  \/ GtcEnter
  \/ CallStep

SpecSections == Init /\ [][NextSections]_vars /\ WF_vars(CallStep)

\* ================================================================ claims
Distance == Abs((motorSteps + backlashSteps) - targetSteps)

\* a step of the behaviour that is an invocation of Axis::move
MoveStep == takeStep' # takeStep

\* C1: with the backlash amount held fixed and step = 1, the slack taken up
\* stays between 0 and the configured amount, whatever the target does
C1_BacklashBound ==
  0 <= backlashSteps /\ backlashSteps <= backlashAmountSteps

C1_Witness ==
  /\ backlashAmountSteps > 0
  /\ backlashSteps = backlashAmountSteps
  /\ motorSteps > 0
  /\ tracking

\* C2: the generator never runs on a state where the slack taken up exceeds
\* the configured amount, also when setBacklash is called between ticks
C2_MoveNeverSeesExcessBacklash ==
  [][MoveStep => backlashSteps <= backlashAmountSteps]_vars

\* C3: once the target has stopped changing, no tick increases the distance
\* to the target, the distance reaches 0, and from then on no tick drives
\* the step pin active
TargetStopped == pc \in {"settled", "halt"} /\ ~tracking

C3_MonotoneConvergence ==
  /\ [][TargetStopped => Distance' <= Distance]_vars
  /\ (TargetStopped ~> (TargetStopped /\ Distance = 0))
  /\ [][(TargetStopped /\ Distance = 0)
          => (Distance' = 0 /\ (MoveStep => stepPin' = StepIdle))]_vars

C3_Witness ==
  /\ TargetStopped
  /\ Distance = 0
  /\ stepPin = StepActive
  /\ backlashSteps > backlashAmountSteps

\* C4: from backlashSteps = 0 with the target at least the backlash amount
\* ahead of the motor and nothing changing any more, the generator ends, and
\* stays, with the backlash full, the motor at target - amount and
\* nearTarget true
GotoSet ==
  /\ pc = "halt"
  /\ ~tracking
  /\ backlashSteps = 0
  /\ targetSteps - motorSteps >= backlashAmountSteps

GotoDone ==
  /\ motorSteps = targetSteps - backlashAmountSteps
  /\ backlashSteps = backlashAmountSteps
  /\ NearValue(motorSteps, backlashSteps, targetSteps)

C4_ScenarioA == GotoSet ~> [](GotoDone)

C4_Witness ==
  /\ pc = "halt"
  /\ ~tracking
  /\ GotoDone
  /\ backlashAmountSteps = 3
  /\ motorSteps = 0
  /\ targetSteps = 3

\* C5 as stated: the direction pin changes level only in a tick whose sign of
\* target - position differs from the sign at the last tick where it was not 0
C5_DirPinChangesOnlyOnSignChange ==
  [][dirPin' # dirPin => (MoveStep /\ TickSign # 0 /\ TickSign # lastSign)]_vars

\* C5 amended: the same, the signs being those seen by the Phase B ticks
C5_DirPinChangesOnlyOnPhaseBSignChange ==
  [][dirPin' # dirPin
       => (MoveStep /\ ~takeStep /\ TickSign # 0 /\ TickSign # lastDirSign)]_vars

C5_Witness ==
  /\ dirPin = DirForward
  /\ dirFwd = FALSE
  /\ lastDirSign = 1
  /\ lastSign = -1

\* C6: a tick drives the step pin active exactly when it is a Phase A that
\* finds position # target, and then exactly one of motorSteps, backlashSteps
\* changes, by step; a Phase B tick returns the pin to idle and leaves
\* motorSteps, backlashSteps, targetSteps alone; the pins are written by ticks
\* only and no two consecutive ticks leave the step pin active
C6_StepPulse ==
  [][/\ (stepPin' # stepPin \/ dirPin' # dirPin) => MoveStep
     /\ MoveStep =>
          /\ (stepPin' = StepActive) <=> (takeStep /\ motorSteps + backlashSteps # targetSteps')
          /\ (stepPin' = StepActive) =>
               \/ (Abs(motorSteps' - motorSteps) = Step /\ backlashSteps' = backlashSteps)
               \/ (Abs(backlashSteps' - backlashSteps) = Step /\ motorSteps' = motorSteps)
          /\ (stepPin' # StepActive) =>
               (motorSteps' = motorSteps /\ backlashSteps' = backlashSteps)
          /\ ~takeStep =>
               /\ stepPin' = StepIdle
               /\ UNCHANGED <<motorSteps, backlashSteps, targetSteps>>
          /\ (stepPin = StepActive) => (stepPin' = StepIdle)]_vars

C6_Witness ==
  /\ stepPin = StepActive
  /\ ~takeStep
  /\ backlashSteps > 0
  /\ backlashSteps < backlashAmountSteps
  /\ tracking

\* C7: getInstrumentCoordinate right after setInstrumentCoordinate(v), no tick
\* in between, returns v within one step; setInstrumentCoordinate leaves
\* motorSteps, targetSteps and backlashSteps alone
C7_RelabelRoundTrip ==
  /\ [](pc = "gic_ret" => \A v \in relabel : Abs(OverSpm(steps) - Measure(v)) <= OneStep)
  /\ [][(pc' = "sic_write" \/ pc = "sic_write")
          => UNCHANGED <<motorSteps, targetSteps, backlashSteps>>]_vars

C7_Witness ==
  /\ pc = "gic_ret"
  /\ relabel = {-1}
  /\ motorSteps # 0
  /\ OverSpm(steps) # Measure(-1)

\* C8: no tick of the generator falls between two of the four writes of
\* setMotorCoordinateSteps
C8_ResetIsAtomic ==
  [][(pc \in {"smcs_motor", "smcs_target", "smcs_backlash"}) => (takeStep' = takeStep)]_vars

\* C9: what getMotorCoordinateSteps and getInstrumentCoordinateSteps are about
\* to return is the sum of the two fields as they are in one state
C9_AtomicReads ==
  /\ pc = "gmcs_ret" => steps = motorSteps + backlashSteps
  /\ pc = "gics_ret" => steps = motorSteps + indexSteps

C9_Witness ==
  /\ pc = "gmcs_ret"
  /\ backlashSteps > 0
  /\ motorSteps # 0
  /\ Distance > 0
  /\ takeStep

\* C10: what nearTarget returns is the value of |position - target| <= 2*step
\* in one of the states the axis was in during the call
C10_NearTargetOnOneState ==
  pc = "nt_ret" => NearResult \in nearSeen

\* C11: getTargetCoordinate after setTargetCoordinate(v), tracking being off
\* and whatever ticks fell in between, returns v within one step, for any
\* indexSteps; setTargetCoordinate writes targetSteps = lround(v*spm) -
\* indexSteps with the timer interrupt masked
C11_TargetRoundTrip ==
  /\ [](pc = "gtc_ret" /\ ~tracking
          => \A v \in targetSet : Abs(OverSpm(steps) - Measure(v)) <= OneStep)
  /\ [][(pc = "tc_write" /\ pc' = "idle")
          => /\ ~intsEnabled
             /\ \A v \in targetSet :
                  targetSteps' = Lround(TimesSpm(v), ValueDenominator) - indexSteps]_vars

C11_Witness ==
  /\ pc = "gtc_ret"
  /\ ~tracking
  /\ targetSet = {1}
  /\ indexSteps # 0
  /\ motorSteps # targetSteps
  /\ OverSpm(steps) # Measure(1)

\* the floor of the half-period in sub-microsecond ticks: minPeriodMicros/2
\* microseconds, times 16, rounded
FloorTicks == LroundTimes(Half(minPeriodMicros), SubMicros, 1)

\* setFrequencyMax(fmax) with fmax > 0 was called and f is above maxFreq
AboveMax(f) == maxFreq[1] > 0 /\ Less(maxFreq, StepsPerSecond(f))

\* C12 as stated: after setFrequencyMax(fmax), fmax > 0, a frequency above
\* maxFreq never gets a task period shorter than the floor, whatever the
\* calibrated clock period is
C12_PeriodNeverBelowFloor ==
  \A f \in freqCall :
    (AboveMax(f) /\ PeriodAccepted(Half(minPeriodMicros))) => taskPeriod >= FloorTicks

\* C12 amended: for a frequency above maxFreq, lastPeriod (the half-period
\* before the clock adjustment) is the floor whatever the clock period is; the
\* task period is the floor when the clock period is SIDEREAL_PERIOD and at
\* most the floor when the clock period is longer; when the floor itself is
\* beyond the 134,000,000 ceiling both are 0
C12_FloorBeforeClockAdjustment ==
  \A f \in freqCall :
    AboveMax(f) =>
      IF PeriodAccepted(Half(minPeriodMicros))
      THEN /\ lastPeriod = FloorTicks
           /\ clockPeriod = ClockDenominator => taskPeriod = FloorTicks
           /\ clockPeriod > ClockDenominator => taskPeriod <= FloorTicks
      ELSE lastPeriod = 0 /\ taskPeriod = 0

C12_Witness ==
  /\ \E f \in freqCall : AboveMax(f)
  /\ PeriodAccepted(Half(minPeriodMicros))
  /\ clockPeriod > ClockDenominator
  /\ lastPeriod = FloorTicks
  /\ taskPeriod > 0
  /\ taskPeriod < FloorTicks

\* the raw period 1e6/(frequency*spm) is not finite or exceeds the ceiling in
\* magnitude
RawPeriodExceeds(f) ==
  ~PeriodAccepted(MicrosPer(StepsPerSecond(f)))

\* C13: a frequency whose raw period 1e6/(frequency*spm) exceeds 134,000,000
\* microseconds in magnitude, or is not finite, leaves the task period and
\* lastPeriod at 0
C13_SlowFrequencyStops ==
  \A f \in freqCall : RawPeriodExceeds(f) => (taskPeriod = 0 /\ lastPeriod = 0)

\* C14: after a setFrequency call lastPeriod is 0 exactly when the task period
\* is 0, and a non-zero lastPeriod makes getFrequencySteps non-zero
C14_LastPeriodZeroIffStopped ==
  freqCall # {} =>
    /\ (lastPeriod = 0) <=> (taskPeriod = 0)
    /\ lastPeriod # 0 => GetFrequencySteps # Zero

\* C15: on a mount that is not altazimuth, after updateTrackingRates both
\* axis rates are 0 when tracking is off; when tracking is sidereal the primary
\* rate is trackingRate and the secondary rate is 0 unless the compensation
\* mode is dual-axis; each axis is programmed with its tracking rate plus its
\* guide and delta corrections
C15_RateMatrix ==
  (ratesUpdated /\ NotAltAzm(mountType)) =>
    /\ trackingState = "TS_NONE" => (trackingRateAxis1 = 0 /\ trackingRateAxis2 = 0)
    /\ trackingState = "TS_SIDEREAL" =>
         /\ trackingRateAxis1 = trackingRate
         /\ ~IsDual(rateCompensation) => trackingRateAxis2 = 0
    /\ axis1Frequency = SiderealToRad(trackingRateAxis1 + guideRateAxis1 + deltaRateAxis1)
    /\ axis2Frequency = SiderealToRad(trackingRateAxis2 + guideRateAxis2 + deltaRateAxis2)

C15_Witness ==
  /\ ratesUpdated
  /\ mountType = "FORK"
  /\ trackingState = "TS_SIDEREAL"
  /\ rateCompensation = "RC_FULL_BOTH"
  /\ trackingRateAxis1 = HzToSidereal(SolarRate)
  /\ trackingRateAxis2 # 0
  /\ guideRateAxis2 + deltaRateAxis2 # 0
  /\ axis2Frequency # <<0, 1>>

\* a step of the behaviour that is a command handled by Mount::command
CommandStep == commandFlip' # commandFlip

\* the error kinds of the state-conflict class
StateConflictErrors == {"CE_PARKED", "CE_MOUNT_IN_MOTION"}

\* C16: on an altazimuth mount :To# :Tr# :Tn# :T1# :T2# are rejected with a
\* state-conflict error and leave rateCompensation, trackingRate and the
\* frequencies programmed into the axes as they were
C16_AltAzmRejectsModeChange ==
  [][(CommandStep /\ mountType = "ALTAZM"
        /\ command'[1] \in {<<"T", "o">>, <<"T", "r">>, <<"T", "n">>, <<"T", "1">>, <<"T", "2">>}
        /\ command'[2] = Empty)
      => /\ commandError' \in StateConflictErrors
         /\ UNCHANGED <<rateCompensation, trackingRate, axis1Frequency, axis2Frequency>>]_vars

\* the frequencies programmed into the axes are those updateTrackingRates
\* derives from the current tracking state, rate and compensation mode
FrequenciesCurrent ==
  /\ trackingRateAxis1 = RateAxis1(mountType, trackingState, trackingRate, trackingRateAxis1)
  /\ trackingRateAxis2 = RateAxis2(mountType, trackingState, rateCompensation, trackingRateAxis2)
  /\ axis1Frequency = SiderealToRad(trackingRateAxis1 + guideRateAxis1 + deltaRateAxis1)
  /\ axis2Frequency = SiderealToRad(trackingRateAxis2 + guideRateAxis2 + deltaRateAxis2)

\* C17: a command that changed trackingState, rateCompensation or trackingRate
\* has called updateTrackingRates after the change and before it returns, and
\* between commands the programmed frequencies are the current ones
C17_RatesUpdatedAfterChange ==
  /\ [][(CommandStep /\ (trackingState' # trackingState
                          \/ rateCompensation' # rateCompensation
                          \/ trackingRate' # trackingRate))
          => ratesUpdated']_vars
  /\ [](FrequenciesCurrent)

\* C18: a :T command that returns an error has left rateCompensation,
\* trackingRate, trackingState, the axes' enable state and the clock period as
\* they were
C18_RejectedTrackingCommandMutatesNothing ==
  [][(CommandStep /\ command'[1][1] = "T" /\ command'[2] = Empty
        /\ commandError' # "CE_NONE")
      => UNCHANGED <<rateCompensation, trackingRate, trackingState, axis1Enabled,
                     axis2Enabled, clockPeriod>>]_vars

\* C19: :Sa :Sd :Sr :Sz with a parameter that does not parse signal an error
\* and leave gotoTarget as it was
C19_UnparsedTargetLeavesField ==
  [][(CommandStep /\ command'[1] \in {<<"S", "a">>, <<"S", "d">>, <<"S", "r">>, <<"S", "z">>}
        /\ ~Parsed(command'[2]))
      => (commandError' # "CE_NONE" /\ gotoTarget' = gotoTarget)]_vars

\* C20: :Sh with an integer d sets limits.minAltitude to d degrees exactly
\* when -30 <= d <= 30; any other integer returns parameter-range and a
\* parameter that does not parse returns parameter-form, both leaving
\* limits.minAltitude as it was
C20_HorizonLimit ==
  [][(CommandStep /\ command'[1] = <<"S", "h">>)
      => LET par == command'[2]
         IN IF ~Parsed(par)
            THEN commandError' = "CE_PARAM_FORM" /\ minAltitude' = minAltitude
            ELSE IF -30 <= par.v /\ par.v <= 30
            THEN commandError' = "CE_NONE" /\ minAltitude' = DegToRad(<<par.v, 0>>)
            ELSE commandError' = "CE_PARAM_RANGE" /\ minAltitude' = minAltitude]_vars

C20_Witness ==
  /\ command = <<<<"S", "h">>, Num(31)>>
  /\ commandError = "CE_PARAM_RANGE"
  /\ minAltitude = DegToRad(<<30, 0>>)

\* an angle x (a number converted x[2] times by degToRad) is at most n degrees,
\* pi taken as 355/113
AtMostDegrees(x, n) ==
  IF x[2] = 0 THEN x[1] * 180 * 113 <= n * 355
  ELSE IF x[2] = 1 THEN x[1] <= n
  ELSE x[1] <= 0 \/ n >= 0

\* C21: on an altazimuth mount an accepted :So (60 <= deg <= 90) leaves
\* limits.maxAltitude at most 87 degrees; a number outside [60, 90] returns
\* parameter-range and leaves limits.maxAltitude as it was
C21_AltAzmOverheadClamped ==
  [][(CommandStep /\ mountType = "ALTAZM" /\ command'[1] = <<"S", "o">>
        /\ Parsed(command'[2]))
      => LET deg == command'[2].v
         IN IF 60 <= deg /\ deg <= 90
            THEN commandError' = "CE_NONE" /\ AtMostDegrees(maxAltitude', 87)
            ELSE commandError' = "CE_PARAM_RANGE" /\ maxAltitude' = maxAltitude]_vars

\* a goto or a guide is in progress
InMotion == gotoState # "GS_NONE" \/ guideState # "GU_NONE"

\* the command received asks for tracking to stop: :Td#, or :ST with a rate
\* of magnitude below 0.1 Hz
AsksToStop(cmd) ==
  \/ cmd = <<<<"T", "d">>, Empty>>
  \/ cmd[1] = <<"S", "T">> /\ Parsed(cmd[2]) /\ Abs(cmd[2].v) < 100

\* the command received asks for tracking to resume: :Te#, or :ST with a rate
\* in [30, 90) Hz
AsksToResume(cmd) ==
  \/ cmd = <<<<"T", "e">>, Empty>>
  \/ cmd[1] = <<"S", "T">> /\ Parsed(cmd[2]) /\ cmd[2].v >= 30000 /\ cmd[2].v < 90000

\* C22: trackingState never goes from sidereal to off while a goto or a guide
\* is in progress; a request to stop tracking in such a state is rejected with
\* a state-conflict error and leaves trackingState as it was
C22_NoStopWhileInMotion ==
  [][InMotion =>
      /\ (trackingState = "TS_SIDEREAL" => trackingState' = "TS_SIDEREAL")
      /\ (CommandStep /\ trackingState = "TS_SIDEREAL" /\ AsksToStop(command'))
           => (commandError' \in StateConflictErrors /\ trackingState' = trackingState)]_vars

\* C23: while parked trackingState never goes from off to sidereal and no
\* tracking request enables an axis; a request to resume tracking while parked
\* is rejected with an error and leaves trackingState and the axes' enable
\* state as they were
C23_NoResumeWhileParked ==
  [][parkState = "PS_PARKED" =>
      /\ (trackingState = "TS_NONE" => trackingState' = "TS_NONE")
      /\ (CommandStep /\ trackingState = "TS_NONE" /\ AsksToResume(command'))
           => /\ commandError' # "CE_NONE"
              /\ UNCHANGED <<trackingState, axis1Enabled, axis2Enabled>>]_vars

\* C24: every command that takes trackingState from off to sidereal has
\* invoked resetGeneralErrors: right after it no general error flag is raised
C24_ResumeResetsGeneralErrors ==
  [][(CommandStep /\ trackingState = "TS_NONE" /\ trackingState' = "TS_SIDEREAL")
      => generalErrors' = {}]_vars

\* backlashAmountSteps of the axis a reader letter names
AmountOf(letter) == IF letter = "R" THEN backlashAmountSteps ELSE axis2BacklashAmountSteps

\* C25: the reader of an axis (:%BR for axis 1, :%BD for axis 2) returns the
\* amount configured for that same axis within one step's rounding, whatever
\* slack is taken up and whatever the other axis is set to
C25_BacklashReadBack ==
  [][(CommandStep /\ command'[1] = <<"%", "B">> /\ command'[2].axis \in {"R", "D"}
        /\ command'[2].kind = "empty")
      => /\ commandError' = "CE_NONE"
         /\ Abs(reply' * StepsPerMeasure - AmountOf(command'[2].axis) * ValueDenominator)
              <= StepsPerMeasure + ValueDenominator]_vars

\* the instrument coordinate of an axis reads 90 degrees, within one step
ReadsQuarterTurn(instrumentSteps) ==
  Abs(instrumentSteps * FrequencyDenominator - AngleSteps(QuarterTurn)) <= FrequencyDenominator

\* C26: after Mount::init trackingState is sidereal, both axes report
\* isEnabled() true, both instrument coordinates read 90 degrees before any
\* tick, and axis 1 is programmed with a non-zero period for the sidereal rate
C26_AfterInit ==
  mountReady =>
    /\ trackingState = "TS_SIDEREAL"
    /\ axis1Enabled /\ axis2Enabled
    /\ motorSteps = 0 =>
         (ReadsQuarterTurn(motorSteps + indexSteps) /\ ReadsQuarterTurn(axis2IndexSteps))
    /\ axis1Frequency = SiderealToRad(HzToSidereal(SiderealRate))
    /\ lastPeriod # 0 /\ taskPeriod # 0

\* the sidereal rate, in steps per second, and its half-period in microseconds
SiderealSteps == Ratio(siderealScale * StepsPerMeasure, FrequencyDenominator)
SiderealHalfMicros == Ratio(MicrosPerSecond * SiderealSteps[2], 2 * SiderealSteps[1])

\* C26 as amended: the axes that have an enable pin report enabled, and on a
\* mount that is not altazimuth whose sidereal half-period is below 134000000
\* microseconds axis 1 is programmed with that half-period, in 1/16 microsecond
C26_AfterInitWithPinsAndRate ==
  mountReady =>
    /\ trackingState = "TS_SIDEREAL"
    /\ axis1EnablePin # "OFF" => axis1Enabled
    /\ axis2EnablePin # "OFF" => axis2Enabled
    /\ motorSteps = 0 =>
         (ReadsQuarterTurn(motorSteps + indexSteps) /\ ReadsQuarterTurn(axis2IndexSteps))
    /\ (mountType # "ALTAZM" /\ SiderealHalfMicros[1] \div SiderealHalfMicros[2] < 134000000) =>
         /\ axis1Frequency = SiderealToRad(HzToSidereal(SiderealRate))
         /\ lastPeriod # 0 /\ taskPeriod # 0
         /\ Abs(lastPeriod \div 16 - SiderealHalfMicros[1] \div SiderealHalfMicros[2]) <= 1

C26_Witness ==
  /\ mountReady
  /\ mountType = "FORK"
  /\ motorSteps = 0
  /\ axis1EnablePin = "PIN" /\ axis2EnablePin = "PIN"
  /\ axis1Enabled /\ axis2Enabled
  /\ indexSteps > 0
  /\ lastPeriod > 0
  /\ tracking

\* C27: with tracking on targetSteps advances by exactly trackingStep at each
\* Phase A invocation of move and not at all in Phase B, the two phases
\* alternating; with tracking off move leaves targetSteps alone
C27_TrackingAdvance ==
  [][MoveStep =>
      /\ takeStep' = ~takeStep
      /\ targetSteps' = IF takeStep /\ tracking THEN targetSteps + TrackingStep
                        ELSE targetSteps]_vars

C27_Witness ==
  /\ tracking
  /\ ~takeStep
  /\ target = 0
  /\ targetSet = {}
  /\ targetSteps = 2 * TrackingStep

\* C28: on a mount that is not altazimuth :To# :Tr# :Tn# return no error, set
\* rateCompensation to full-single, refraction-single and none, reset
\* trackingRate to the sidereal rate and reprogram the axes
C28_CompensationModeCommands ==
  [][(CommandStep /\ mountType # "ALTAZM" /\ command'[2] = Empty
        /\ command'[1] \in {<<"T", "o">>, <<"T", "r">>, <<"T", "n">>})
      => /\ commandError' = "CE_NONE"
         /\ rateCompensation' = (IF command'[1][2] = "o" THEN "RC_FULL_RA"
                                 ELSE IF command'[1][2] = "r" THEN "RC_REFR_RA"
                                 ELSE "RC_NONE")
         /\ trackingRate' = HzToSidereal(SiderealRate)
         /\ ratesUpdated']_vars

\* the dual-axis mode of a single-axis mode, and back
DualOf(comp) ==
  IF comp = "RC_REFR_RA" THEN "RC_REFR_BOTH"
  ELSE IF comp = "RC_FULL_RA" THEN "RC_FULL_BOTH" ELSE comp
SingleOf(comp) ==
  IF comp = "RC_REFR_BOTH" THEN "RC_REFR_RA"
  ELSE IF comp = "RC_FULL_BOTH" THEN "RC_FULL_RA" ELSE comp

\* :T2# was received in the step before and :T1# in this one
DualThenSingle ==
  /\ command = <<<<"T", "2">>, Empty>>
  /\ command' = <<<<"T", "1">>, Empty>>

\* C29: on a mount that is not altazimuth :T2# takes refraction-single to
\* refraction-dual and full-single to full-dual, :T1# does the reverse, both
\* leave every other mode alone and return no error; :T1# right after :T2#
\* leaves a single-axis mode or none
C29_DualAxisCommands ==
  [][(CommandStep /\ mountType # "ALTAZM" /\ command'[2] = Empty)
      => /\ command'[1] = <<"T", "2">>
              => (commandError' = "CE_NONE" /\ rateCompensation' = DualOf(rateCompensation))
         /\ command'[1] = <<"T", "1">>
              => (commandError' = "CE_NONE" /\ rateCompensation' = SingleOf(rateCompensation))
         /\ DualThenSingle => rateCompensation' \in {"RC_NONE", "RC_REFR_RA", "RC_FULL_RA"}]_vars

C29_Witness ==
  /\ NotAltAzm(mountType)
  /\ command = <<<<"T", "2">>, Empty>>
  /\ commandError = "CE_NONE"
  /\ rateCompensation = "RC_FULL_BOTH"
  /\ ratesUpdated

\* C30: when a Phase A invocation drives the step pin active, the direction
\* pin is at the level Phase B writes for that direction of motion: the level
\* for position ahead of target when motorSteps + backlashSteps decreases, the
\* level for position behind target when it increases
C30_NoStaleDirection ==
  [][(MoveStep /\ takeStep /\ stepPin' = StepActive)
      => /\ motorSteps' + backlashSteps' < motorSteps + backlashSteps => dirPin = DirReverse
         /\ motorSteps' + backlashSteps' > motorSteps + backlashSteps => dirPin = DirForward]_vars

\* the step that enters moveTargetCoordinate: it leaves `steps` = lround(target)
MoveTargetEntered == pc = "idle" /\ pc' = "tc_write" /\ targetSet' = {}

\* C31: moveTargetCoordinate(delta) shifts the instrument-frame target
\* targetSteps + indexSteps by round(delta*spm), within one step, whatever
\* calls of setInstrumentCoordinate, setMotorCoordinate(Steps),
\* setTargetCoordinate and moveTargetCoordinate came before: the value the
\* call is about to write is the target before the call plus the rounded
\* shift, and the write stores that value less the index
C31_MoveShiftsTarget ==
  [][/\ MoveTargetEntered =>
          Abs(steps' - ((targetSteps + indexSteps)
                        + Lround(target' - target, ValueDenominator))) <= Step
     /\ (pc = "tc_write") => (targetSteps' + indexSteps' = steps)]_vars

\* C32: after Axis::init, target changes and ticks that start from a
\* position inside the soft travel limits never take the motor position
\* outside them: minSteps <= motorSteps <= maxSteps
C32_WithinSoftLimits ==
  mountReady => (minSteps <= motorSteps /\ motorSteps <= maxSteps)

\* |f|
Magnitude(f) == <<Abs(f[1]), f[2]>>

\* the task period setFrequency(g) programs under the present ceiling and clock
PeriodFor(g) == TaskPeriodFor(HalfPeriod(g, minPeriodMicros), clockPeriod)

\* f is negative and its magnitude is below the ceiling set by setFrequencyMax
NegativeBelowMax(f) ==
  f[1] < 0 /\ maxFreq[1] > 0 /\ Less(StepsPerSecond(Magnitude(f)), maxFreq)

\* C33: the period setFrequency programs is monotone in the magnitude of the
\* request: after setFrequency(f) with a non-zero period, every request g with
\* |f| <= |g| that yields a non-zero period yields one that is not longer; and
\* a negative request whose magnitude is below the ceiling is not programmed
\* as the floor period of the maximum speed
C33_PeriodMonotone ==
  \A f \in freqCall :
    /\ \A g \in Frequencies :
         (~Less(Magnitude(g), Magnitude(f)) /\ taskPeriod # 0 /\ PeriodFor(g) # 0)
           => taskPeriod >= PeriodFor(g)
    /\ (NegativeBelowMax(f) /\ lastPeriod # 0) => lastPeriod # FloorTicks

\* the steps the call at position p takes before it unmasks the timer interrupt
SuspendedSteps(p) ==
  CASE p \in {"smcs_target", "gmcs_add", "gics_add", "gic_add", "gtc_add"} -> 2
    [] p \in {"smcs_backlash", "gmcs_ret", "gics_ret", "gic_ret", "gtc_ret",
               "sic_write", "tc_write"} -> 1
    [] OTHER -> 0

\* C34: a call that masks the timer interrupt unmasks it before it returns;
\* while the interrupt is masked every step is a step of that one call and
\* brings it closer to its return, at most two field accesses away, so
\* critical sections do not nest; the interrupt is unmasked only at the
\* return; and the generator is never left suspended: whenever the interrupt
\* is masked it is unmasked again
C34_CriticalSectionsClose ==
  /\ [](pc = "idle" => intsEnabled)
  /\ [](~intsEnabled => SuspendedSteps(pc) \in 1..2)
  /\ [][~intsEnabled => SuspendedSteps(pc') = SuspendedSteps(pc) - 1]_vars
  /\ [][(~intsEnabled /\ intsEnabled') => pc' = "idle"]_vars
  /\ (~intsEnabled ~> intsEnabled)

\* setInstrumentCoordinate and setTargetCoordinate have returned, the
\* generator has moved the motor since, and it can tick again
C34_Witness ==
  /\ pc = "idle"
  /\ intsEnabled
  /\ indexSteps # 0
  /\ motorSteps # 0
  /\ targetSet # {}

====
